---- MODULE Spec2Model ----
(***************************************************************************)
(* State-machine model of the MEGA SDK transfer engine                     *)
(* (src/src/transferslot.cpp): one Transfer with its TransferSlot, the     *)
(* per-connection HTTP requests, the buffer manager's output pieces, the   *)
(* crypto workers, the asynchronous filesystem and the storage server.     *)
(***************************************************************************)
EXTENDS Integers, Sequences, FiniteSets, TLC

(***************************************************************************)
(* Bounds of the model and program constants                               *)
(***************************************************************************)
\* largest file of the model, in chunks of the chunk geometry
MaxChunks == 2
\* environment faults (HTTP failures, bad bodies, I/O failures) per slot
MaxFaults == 1
\* environment faults per slot of a RAID download
MaxRaidFaults == 0
\* environment faults per slot where the errors of a slot are counted
MaxErrFaults == 5
\* environment faults per slot of a download whose requests fail repeatedly
MaxReqFaults == 2
\* the chunk MACs of the downloads whose metamac is checked for late gaps:
\* every count up to SmallGapChunks with every pair of gaps, and the counts
\* that exceed the two windows of the search by GapMargin
SmallGapChunks == 5
GapMargin == 2

\* the transfers of the slot table, and the slot objects ever constructed
NTransfers == 2
MaxSlotObjects == 4

\* the longest name, and the most bytes of mtime, of a stored LocalNode; the
\* most bytes that follow one
MaxNameLen == 2
MaxMtimeLen == 2
MaxExtra == 2

\* the passes of the destructor's flush loop that are followed
MaxPasses == 3
\* part failures per slot of a RAID download whose parts fail, and the number
\* of parts (the highest-numbered ones) that may fail
MaxPartFaults == 2
FaultyParts == 2

\* ChunkedHash::SEGSIZE, the size of the first chunk
SEGSIZE == 131072
\* SymmCipher::BLOCKSIZE
BLOCKSIZE == 16
RAIDSECTOR == 16
RAIDPARTS == 6
\* the size above which a non-RAID transfer gets the configured connections
SingleConnectionLimit == 131072
\* client->connections[transfer->type], the client-wide parameter
ClientConnections == 2
\* bytes of a chunk received while a request is still in flight
PartialLen == 65536
RaidPartialLen == 16384
NewNode_UPLOADTOKENLEN == 36
NewNode_OLDUPLOADTOKENLEN == 27
XFERTIMEOUT == 600
\* the step of the clock, and the longest silence told apart, in steps
TimeUnit == 600
MaxAge == 1

GET == "GET"
PUT == "PUT"

\* F applied to the value of v
Bind(v, F(_)) == CHOOSE r \in {F(x) : x \in {v}} : TRUE

(***************************************************************************)
(* ChunkedHash: chunk geometry                                             *)
(***************************************************************************)
RECURSIVE ChunkWalk(_, _, _)
\* the boundary strictly greater than p: chunks of 1..8 segments, then 8
ChunkWalk(p, cp, i) ==
    LET step == (IF i <= 8 THEN i ELSE 8) * SEGSIZE
        np == cp + step
    IN IF p >= cp /\ p < np THEN np ELSE ChunkWalk(p, np, i + 1)

chunkceil(p, limit) ==
    LET np == ChunkWalk(p, 0, 1)
    IN IF limit < 0 \/ np < limit THEN np ELSE limit

RECURSIVE FloorWalk(_, _, _)
FloorWalk(p, cp, i) ==
    LET step == (IF i <= 8 THEN i ELSE 8) * SEGSIZE
        np == cp + step
    IN IF p >= cp /\ p < np THEN cp ELSE FloorWalk(p, np, i + 1)

chunkfloor(p) == FloorWalk(p, 0, 1)

RECURSIVE ChunkStart(_)
\* the offset at which chunk number k (from 0) starts
ChunkStart(k) == IF k = 0 THEN 0 ELSE chunkceil(ChunkStart(k - 1), -1)

\* the chunk starts of the model's files
AllChunkStarts == {ChunkStart(k) : k \in 0..(MaxChunks + 1)}

\* the chunk starts of a file of the given size
ChunkStarts(sz) == {c \in AllChunkStarts : c < sz}

(***************************************************************************)
(* chunkmac_map: chunk start -> [offset: bytes MAC'd so far, finished].    *)
(* A chunk MAC is a function of the bytes it covers, so the model keeps   *)
(* the covered length in its place; the mac-of-macs is the fold of the     *)
(* entries in offset order, kept as the sequence it folds.                 *)
(***************************************************************************)
\* the elements of S in ascending order
SortedKeys(S) ==
    Bind([k \in S |-> Cardinality({j \in S : j < k})], LAMBDA rank :
        [n \in 1..Cardinality(S) |-> CHOOSE k \in S : rank[k] = n - 1])

EntryMac(m, k) == <<k, m[k].offset, m[k].finished>>

\* the chunk MACs of the map in offset order, which the mac-of-macs folds
MacSeq(m) ==
    LET ks == SortedKeys(DOMAIN m)
    IN [n \in 1..Len(ks) |-> EntryMac(m, ks[n])]

\* the fold over the chunk MACs macs that leaves out the entries with index
\* (from 0) in [g1,g2) or [g3,g4)
macsmac_gaps_seq(macs, g1, g2, g3, g4) ==
    LET idx == SelectSeq([n \in 1..Len(macs) |-> n],
                         LAMBDA n : ~ (\/ (n - 1 >= g1 /\ n - 1 < g2)
                                       \/ (n - 1 >= g3 /\ n - 1 < g4)))
    IN [j \in 1..Len(idx) |-> macs[idx[j]]]

\* macsmac_gaps: the entries with index in [g1,g2) or [g3,g4) are left out
macsmac_gaps_of(m, g1, g2, g3, g4) ==
    macsmac_gaps_seq(MacSeq(m), g1, g2, g3, g4)

macsmac_of(m) == macsmac_gaps_of(m, 0, 0, 0, 0)

\* finishedUploadChunks: merge an upload request's chunk MACs as finished
finishedUploadChunks(m, macs) ==
    [k \in (DOMAIN m) \cup (DOMAIN macs) |->
        IF k \in DOMAIN macs THEN [offset |-> macs[k].offset, finished |-> TRUE]
        ELSE m[k]]

EmptyMacs == [k \in {} |-> [offset |-> 0, finished |-> FALSE]]

\* the chunk MACs of the whole byte range [a, b) of a file of size sz
MacsOfRange(a, b, sz) ==
    [k \in {c \in ChunkStarts(sz) : c >= a /\ c < b} |->
        [offset |-> chunkceil(k, sz) - k, finished |-> TRUE]]

\* the complete chunk MAC map of a file
FullMacs(sz) == MacsOfRange(0, sz, sz)

(***************************************************************************)
(* State                                                                   *)
(***************************************************************************)
VARIABLES
    \* Transfer
    type,               \* GET or PUT
    size,               \* transfer->size
    pos,                \* transfer->pos, the next byte to schedule
    progresscompleted,  \* transfer->progresscompleted
    chunkmacs,          \* transfer->chunkmacs
    metamac,            \* transfer->metamac
    currentmetamac,     \* transfer->currentmetamac
    ultoken,            \* transfer->ultoken is set
    finished,           \* transfer->finished
    \* TransferSlot
    slot,               \* "active", "completing" (transfer->complete was called),
                        \* "failed" (transfer->failed was called), "gone"
    fa,                 \* the slot holds a file access
    connections,
    reqs,               \* connection -> request (status "NULL": no request)
    asyncIO,            \* connection -> pending asynchronous file operation
    errorcount,
    lasterror,
    failure,
    retrying,
    retrybt,            \* the backoff the retry timer is armed with, 0: reset
    progresscontiguous,
    progressreported,
    sinceLastdata,      \* Waiter::ds - lastdata, in TimeUnits (capped at MaxAge)
    \* TransferBufferManager
    tempurls,           \* the temporary URL vector is not empty
    raid,               \* transferbuf.isRaid()
    raidUnused,         \* the RAID part given up (-1: none)
    raidbuf,            \* RAID: per part the next offset to request (pos) and
                        \* the bytes handed in (got), the parts that answered
                        \* (started), whether the reassembled data went out,
                        \* whether the error recovery has switched parts
    outbuf,             \* connection -> the output piece awaiting its write
    \* MegaClient and the filesystem
    client,             \* usehttps, usealtport, autoport, orderdownloadedchunks,
                        \* asyncavailable, urlhttp (the temp URLs are http:)
    \* environment and history
    written,            \* chunk start -> bytes of the chunk written to the file
    srv,                \* chunk starts the storage server has received
    faults,             \* faults the environment has injected so far
    budget,             \* faults the environment may inject into this slot
    verified,           \* the mac-of-macs was found equal to metamac
    dtor,               \* the running destructor: the connection its loop is
                        \* at, and where it stands in the wait for the worker
    rd,                 \* LocalNode::unserialize: its input and its result
    cl,                 \* the client's slot table: tslots, slotit, the slot
                        \* objects and each transfer's slot pointer
    tp,                 \* a request's posturl, the parts it was built from
                        \* and the values it had before each toggleport
    tfa,                \* a TransferSlotFileAccess: whether it lives and holds
                        \* a file access, whether its transfer's timer bt is
                        \* enabled, and the calls made on it
    nodes,              \* the client's nodes: each node's parent (0: none),
                        \* mNodeCounters, and the setparent calls made
    ev                  \* what the last step did (calls to complete, failed, ...)

vars == <<type, size, pos, progresscompleted, chunkmacs, metamac, currentmetamac,
          ultoken, finished, slot, fa, connections, reqs, asyncIO, errorcount,
          lasterror, failure, retrying, retrybt, progresscontiguous,
          progressreported, sinceLastdata, tempurls, raid, raidUnused, raidbuf,
          outbuf, client,
          written, srv, faults, budget, verified, dtor, rd, cl, tp, tfa, nodes, ev>>

\* HttpReqXfer / HttpReqDL / HttpReqUL
NoReq ==
    [status |-> "NULL", pos |-> 0, size |-> 0, bufpos |-> 0, in |-> "",
     httpstatus |-> 0, html |-> FALSE, timeleft |-> -1, buffer_released |-> FALSE,
     mChunkmacs |-> EmptyMacs, altport |-> FALSE, sinceData |-> 0, npos |-> 0]

\* AsyncIOContext
NoAsync == [present |-> FALSE, finished |-> FALSE, failed |-> FALSE,
            retry |-> FALSE, pos |-> 0, len |-> 0]

\* TransferBufferManager::FilePiece
NoPiece == [present |-> FALSE, pos |-> 0, len |-> 0, finalized |-> FALSE]

\* what one step reports
NoEvent ==
    [op |-> "none", complete |-> FALSE, failed |-> "none", macChecked |-> FALSE,
     macEqual |-> FALSE, recovery |-> "none", token |-> FALSE,
     tokenSum |-> -1, tokenMacs |-> <<>>, created |-> FALSE,
     failedBackoff |-> 0, posted |-> {}, wrote |-> <<>>, serviced |-> {},
     cached |-> FALSE, flushed |-> {}, undrained |-> {}, body |-> "none",
     tokenOthers |-> {}, acked |-> {}, marks |-> <<>>, released |-> {},
     discarded |-> {}, anyData |-> FALSE, passes |-> 0, failedMacs |-> {},
     owned |-> {}, iofail |-> {}, p |-> -1, pExtra |-> 0, ready |-> {}, given |-> <<>>,
     kept |-> {}, loops |-> FALSE,
     switch |-> [part |-> -1, before |-> [i \in {} |-> NoReq],
                 after |-> [i \in {} |-> NoReq]],
     atTimeout |-> [reached |-> FALSE, age |-> 0, failure |-> FALSE,
                    reqs |-> [i \in {} |-> NoReq]]]

Conns == 0..(RAIDPARTS - 1)

\* no destructor is running
NoDtor == [i |-> -1, at |-> "none"]

\* no TransferSlotFileAccess is looked at
NoFileAccess == [obj |-> "none", fa |-> FALSE, bt |-> FALSE, calls |-> <<>>]

\* no node tree is looked at
NoNodes == [parent |-> <<>>, counters |-> <<>>, moves |-> 0,
            last |-> [node |-> 0, p |-> 0, moved |-> FALSE]]

\* no URL is looked at
NoToggle == [posturl |-> <<>>, parts |-> <<>>, before |-> <<>>]

\* the slot table is not looked at: no slot object, tslots empty, slotit at
\* tslots.end() (written 0), no transfer with a slot
NoClient == [tslots |-> <<>>, slotit |-> 0, made |-> 0,
             objs |-> [s \in {} |-> [transfer |-> 0, listed |-> FALSE]],
             slot |-> [x \in {} |-> 0], state |-> [x \in {} |-> "QUEUED"],
             last |-> [op |-> "none", advanced |-> FALSE]]

\* no stored LocalNode is being read
NoRead == [d |-> <<>>, ndebug |-> TRUE, node |-> <<>>, out |-> <<>>, ends |-> {},
           whole |-> 0, extra |-> 0, result |-> "idle"]

\* the RAID reassembly state of a transfer that is not RAID, or has no
\* connections yet
NoRaidBuf == [pos |-> [i \in {} |-> 0], got |-> [i \in {} |-> 0],
              started |-> {}, out |-> FALSE, outpos |-> 0, switched |-> FALSE]

\* the sizes of the model: empty, one byte short of the first chunk boundary,
\* and files of 1..MaxChunks whole chunks
Sizes == {0, SEGSIZE - 1} \cup {ChunkStart(k) : k \in 1..MaxChunks}

\* the metamacs a GET can be given: the file's, one computed with late chunk
\* MACs missing (the legacy upload bug), and a wrong one
LegacyGaps(sz) ==
    LET N == Cardinality(ChunkStarts(sz))
    IN {macsmac_gaps_of(FullMacs(sz), g, g + 1, N, N) : g \in 0..(N - 1)}

BadMac == << <<-1, 0, FALSE>> >>

MetaMacs(sz) == {macsmac_of(FullMacs(sz)), BadMac} \cup LegacyGaps(sz)

ClientConfigs ==
    {[usehttps |-> FALSE, usealtport |-> FALSE, autoport |-> h,
      orderdownloadedchunks |-> o, asyncavailable |-> a, urlhttp |-> h] :
        o \in BOOLEAN, a \in BOOLEAN, h \in BOOLEAN}

\* the state a TransferSlot is constructed in (TransferSlot::TransferSlot), for a
\* transfer that is new or was restored complete from the transfer cache: its
\* size is one of sizes, the client is set up as one of configs, and the
\* environment may inject b faults
SlotInit(sizes, configs, b) ==
    /\ type \in {GET, PUT}
    /\ size \in sizes
    /\ \E cached \in BOOLEAN :
          /\ cached => size > 0
          /\ pos = IF cached THEN size ELSE 0
          /\ progresscompleted = IF cached THEN size ELSE 0
          /\ chunkmacs = IF cached THEN FullMacs(size) ELSE EmptyMacs
          /\ ultoken \in (IF cached /\ type = PUT THEN BOOLEAN ELSE {FALSE})
          /\ written = [c \in ChunkStarts(size) |->
                          IF cached /\ type = GET THEN chunkceil(c, size) - c ELSE 0]
          /\ srv = IF cached /\ type = PUT THEN ChunkStarts(size) ELSE {}
    /\ metamac \in (IF type = GET THEN MetaMacs(size) ELSE {<<>>})
    /\ currentmetamac = <<>>
    /\ finished = FALSE
    /\ slot = "active"
    /\ fa = TRUE
    /\ connections = 0
    /\ reqs = [i \in {} |-> NoReq]
    /\ asyncIO = [i \in {} |-> NoAsync]
    /\ errorcount = 0
    /\ lasterror = "API_OK"
    /\ failure = FALSE
    /\ retrying = FALSE
    /\ retrybt = 0
    /\ progresscontiguous = 0
    /\ progressreported = 0
    /\ sinceLastdata = 0
    /\ tempurls \in BOOLEAN
    /\ raid = FALSE
    /\ raidUnused = -1
    /\ raidbuf = NoRaidBuf
    /\ outbuf = [i \in {} |-> NoPiece]
    /\ client \in configs
    /\ faults = 0
    /\ budget = b
    /\ verified = FALSE
    /\ dtor = NoDtor
    /\ rd = NoRead /\ nodes = NoNodes /\ tfa = NoFileAccess /\ tp = NoToggle
    /\ cl = NoClient
    /\ ev = NoEvent

Init == SlotInit(Sizes, ClientConfigs, MaxFaults)

(***************************************************************************)
(* The working state of one handler: the fields it can change, its locals  *)
(* (backoff, p), whether it has returned, and the step's inputs.           *)
(***************************************************************************)
Cur(op, inp) ==
    [pos |-> pos, progresscompleted |-> progresscompleted, chunkmacs |-> chunkmacs,
     metamac |-> metamac, currentmetamac |-> currentmetamac, ultoken |-> ultoken,
     slot |-> slot, fa |-> fa, connections |-> connections, reqs |-> reqs,
     asyncIO |-> asyncIO, errorcount |-> errorcount, lasterror |-> lasterror,
     failure |-> failure, retrying |-> retrying, retrybt |-> retrybt,
     progresscontiguous |-> progresscontiguous,
     progressreported |-> progressreported, sinceLastdata |-> sinceLastdata,
     raidUnused |-> raidUnused, raidbuf |-> raidbuf, outbuf |-> outbuf,
     client |-> client,
     written |-> written, verified |-> verified, faults |-> faults,
     ev |-> [NoEvent EXCEPT !.op = op],
     backoff |-> 0, p |-> 0, ret |-> FALSE, restart |-> FALSE, inp |-> inp]

Commit(s) ==
    /\ pos' = s.pos
    /\ progresscompleted' = s.progresscompleted
    /\ chunkmacs' = s.chunkmacs
    /\ metamac' = s.metamac
    /\ currentmetamac' = s.currentmetamac
    /\ ultoken' = s.ultoken
    /\ slot' = s.slot
    /\ fa' = s.fa
    /\ connections' = s.connections
    /\ reqs' = s.reqs
    /\ asyncIO' = s.asyncIO
    /\ errorcount' = s.errorcount
    /\ lasterror' = s.lasterror
    /\ failure' = s.failure
    /\ retrying' = s.retrying
    /\ retrybt' = s.retrybt
    /\ progresscontiguous' = s.progresscontiguous
    /\ progressreported' = s.progressreported
    /\ sinceLastdata' = s.sinceLastdata
    /\ raidUnused' = s.raidUnused
    /\ raidbuf' = s.raidbuf
    /\ outbuf' = s.outbuf
    /\ client' = s.client
    /\ written' = s.written
    /\ verified' = s.verified
    /\ faults' = s.faults
    /\ ev' = s.ev

(***************************************************************************)
(* Transfer::complete and Transfer::failed, as the slot sees them          *)
(***************************************************************************)
\* transfer->complete(committer): the completion runs; for a download the
\* temporary file is disconnected from the slot, and the completion stays
\* pending (doio retries it) until the slot is deleted
transfer_complete(s) ==
    [s EXCEPT !.ev.complete = TRUE, !.slot = "completing",
              !.fa = IF type = GET THEN FALSE ELSE @, !.ret = TRUE]

\* transfer->failed(e, committer, backoff): the slot is about to be deleted
transfer_failed(s, e, bo) ==
    [s EXCEPT !.ev.failed = e, !.ev.failedBackoff = bo, !.slot = "failed",
              !.ev.failedMacs = DOMAIN s.chunkmacs,
              !.ret = TRUE]

(***************************************************************************)
(* TransferBufferManager                                                   *)
(***************************************************************************)
\* FilePiece::finalize's chunk MACs merged into the transfer's: the bytes of
\* each chunk the piece covers extend that chunk's MAC, which is finished
\* once the whole chunk is covered
MergePiece(m, piece) ==
    LET a == piece.pos
        b == piece.pos + piece.len
        touched == {c \in ChunkStarts(size) : c < b /\ chunkceil(c, size) > a}
        old(c) == IF c \in DOMAIN m THEN m[c] ELSE [offset |-> 0, finished |-> FALSE]
        from(c) == IF a > c THEN a ELSE c
        upto(c) == IF b < chunkceil(c, size) THEN b ELSE chunkceil(c, size)
        new(c) ==
            IF old(c).finished \/ from(c) # c + old(c).offset THEN old(c)
            ELSE [offset |-> old(c).offset + (upto(c) - from(c)),
                  finished |-> (upto(c) = chunkceil(c, size))]
    IN [c \in (DOMAIN m) \cup touched |-> IF c \in touched THEN new(c) ELSE m[c]]

RECURSIVE ContiguousFrom(_, _)
\* the end of the run of finished chunks that starts at offset p
ContiguousFrom(m, p) ==
    IF p \in DOMAIN m /\ m[p].finished /\ chunkceil(p, size) > p
    THEN ContiguousFrom(m, chunkceil(p, size))
    ELSE p

\* bufferWriteCompleted(i, success): release connection i's output piece; on
\* success merge its chunk MACs and advance progresscompleted across the
\* contiguous finished chunks. The step's history notes the release: "S" for
\* a piece whose write succeeded
bufferWriteCompleted(s0, i, success) ==
    Bind(s0, LAMBDA s :
        IF ~s.outbuf[i].present THEN s
        ELSE IF success
             THEN Bind(MergePiece(s.chunkmacs, s.outbuf[i]), LAMBDA m :
                    [s EXCEPT !.chunkmacs = m,
                              !.progresscompleted = ContiguousFrom(m, @),
                              !.outbuf[i] = NoPiece,
                              !.ev.marks = Append(@, "S"),
                              !.ev.released = @ \cup {i}])
             ELSE [s EXCEPT !.outbuf[i] = NoPiece,
                            !.ev.discarded = @ \cup {i}])

\* the length of one RAID part: a RAIDSECTOR of every line of five sectors
RaidPartSize ==
    ((size + RAIDSECTOR * (RAIDPARTS - 1) - 1) \div (RAIDSECTOR * (RAIDPARTS - 1)))
        * RAIDSECTOR

\* five parts in use have delivered all their data
RaidWhole(s) ==
    Cardinality({j \in DOMAIN s.raidbuf.got :
                    j # s.raidUnused /\ s.raidbuf.got[j] = RaidPartSize})
        >= RAIDPARTS - 1

\* submitBuffer(i, new FilePiece(pos, buf)): the buffer leaves the request;
\* non-RAID it is connection i's output piece, RAID it extends part i
submitBuffer(s, i, p0, len) ==
    IF raid
    THEN [s EXCEPT !.raidbuf.got[i] = IF p0 = @ THEN p0 + len ELSE @,
                   !.reqs[i].size = 0, !.reqs[i].bufpos = 0]
    ELSE [s EXCEPT !.outbuf[i] = [present |-> TRUE, pos |-> p0, len |-> len,
                                  finalized |-> FALSE],
                   !.reqs[i].size = 0, !.reqs[i].bufpos = 0]

\* getAsyncOutputBufferPointer(i): connection i's output piece; RAID, the
\* data reassembled from five whole parts is handed out chunk by chunk, in
\* ascending order, each piece to a connection that asks for it, has none
\* and whose part is in use
getAsyncOutputBufferPointer(s, i) ==
    IF raid /\ ~s.outbuf[i].present /\ ~s.raidbuf.out /\ i # s.raidUnused
       /\ RaidWhole(s)
    THEN LET from == s.raidbuf.outpos
             upto == chunkceil(from, size)
         IN [s EXCEPT !.outbuf[i] = [present |-> TRUE, pos |-> from,
                                     len |-> upto - from, finalized |-> FALSE],
                      !.raidbuf.outpos = upto,
                      !.raidbuf.out = (upto = size),
                      !.pos = upto]
    ELSE s

\* a faulty variant: the position is not advanced past the range handed out
SetTransferPosMax_NoAdvance(s, i, second) == s

\* transferbuf.transferPos(i): RAID it is part i's position, else transfer->pos
SetTransferPosMax(s, i, second) ==
    IF raid THEN [s EXCEPT !.raidbuf.pos[i] = IF second > @ THEN second ELSE @]
    ELSE [s EXCEPT !.pos = IF second > @ THEN second ELSE @]

RECURSIVE RaidGotSum(_, _)
RaidGotSum(got, S) ==
    IF S = {} THEN 0
    ELSE LET j == CHOOSE x \in S : \A y \in S : x >= y
         IN got[j] + RaidGotSum(got, S \ {j})

\* transferbuf.progress(): the RAID data waiting to be recombined
RaidProgress(s) ==
    IF raid /\ ~s.raidbuf.out
    THEN LET got == RaidGotSum(s.raidbuf.got, DOMAIN s.raidbuf.got)
         IN IF got > s.raidbuf.outpos THEN got - s.raidbuf.outpos ELSE 0
    ELSE 0

\* the request has its reply's headers (contentlength == size)
HeadersIn(r) == r.status # "NULL" /\ (r.httpstatus = 200 \/ r.bufpos > 0)

\* detectSlowestRaidConnection(i, slowest): part i has answered; when all
\* parts are in use and one only has not answered yet, it is given up
detectSlowestRaidConnection(s, i) ==
    IF type = GET /\ raid /\ HeadersIn(s.reqs[i])
    THEN LET started2 == s.raidbuf.started \cup {i}
             late == Conns \ started2
         IN IF s.raidUnused = -1 /\ Cardinality(late) = 1
            THEN [hit |-> TRUE, slowest |-> CHOOSE j \in late : TRUE,
                  s |-> [s EXCEPT !.raidbuf.started = started2,
                                  !.raidUnused = CHOOSE j \in late : TRUE]]
            ELSE [hit |-> FALSE, slowest |-> -1,
                  s |-> [s EXCEPT !.raidbuf.started = started2]]
    ELSE [hit |-> FALSE, slowest |-> -1, s |-> s]

\* resetPart(j): what part j had delivered is dropped
resetPart(s, j) ==
    [s EXCEPT !.raidbuf.pos[j] = 0, !.raidbuf.got[j] = 0,
              !.outbuf[j] = NoPiece]

\* connectionRaidPeersAreAllPaused(i): every other part in use has delivered
\* its data and waits for part i
connectionRaidPeersAreAllPaused(s, i) ==
    /\ s.raidbuf.got[i] < RaidPartSize
    /\ \A j \in DOMAIN s.raidbuf.got :
          (j # i /\ j # s.raidUnused) => s.raidbuf.got[j] = RaidPartSize

\* FilePiece::finalize(false, ...) asks for the worker when the piece holds
\* the end of a chunk that is not decrypted yet
NeedsParallel(piece) ==
    /\ ~piece.finalized
    /\ piece.len > 0
    /\ \E c \in ChunkStarts(size) :
          /\ chunkceil(c, size) > piece.pos
          /\ chunkceil(c, size) <= piece.pos + piece.len

\* nextNPosForConnection: [start, end) of the next range to request: the
\* next chunk, or RAID the rest of part i unless the part is given up
nextNPosForConnection(s, i) ==
    IF raid
    THEN [first |-> s.raidbuf.pos[i],
          second |-> IF i # s.raidUnused /\ s.raidbuf.pos[i] < RaidPartSize
                     THEN RaidPartSize ELSE s.raidbuf.pos[i]]
    ELSE [first |-> s.pos,
          second |-> IF s.pos < size THEN chunkceil(s.pos, size) ELSE s.pos]

\* fwrite of a piece: the bytes are in the file
FileWrite(s0, piece) ==
    Bind(s0, LAMBDA s :
        LET cs == {c \in ChunkStarts(size) :
                      c < piece.pos + piece.len /\ chunkceil(c, size) > piece.pos}
            upto(c) == IF piece.pos + piece.len < chunkceil(c, size)
                       THEN piece.pos + piece.len ELSE chunkceil(c, size)
        IN [s EXCEPT !.written = [c \in DOMAIN @ |->
                                     IF c \in cs /\ piece.pos <= c + @[c]
                                                  /\ upto(c) - c > @[c]
                                     THEN upto(c) - c ELSE @[c]],
                     !.ev.wrote = Append(@, piece.pos)])

(***************************************************************************)
(* Integrity verification                                                  *)
(***************************************************************************)
SingleGapWindow == 96
SingleGapMaxLen == 64
TwoGapWindow == 40
TwoGapMaxLen == 16

Min(a, b) == IF a < b THEN a ELSE b
Max(a, b) == IF a > b THEN a ELSE b

\* a faulty variant: the search for a single gap goes one chunk further back
MissingLateEntriesMatch_Wider(m, mm) ==
    Bind(MacSeq(m), LAMBDA macs :
    LET end == Len(macs)
        finalN == Min(SingleGapWindow + 1, end)
        finalN2 == Min(TwoGapWindow, end)
    IN \/ \E countBack \in 1..finalN : \E len1 \in 1..Min(SingleGapMaxLen, countBack) :
            LET start1 == end - countBack
            IN /\ start1 + len1 <= end
               /\ mm = macsmac_gaps_seq(macs, start1, start1 + len1, end, end)
       \/ \E start1 \in (end - finalN2)..(end - 1) :
            \E len1 \in 1..Min(TwoGapMaxLen, end - start1) :
            /\ start1 + len1 <= end
            /\ \E start2 \in (start1 + len1 + 1)..(end - 1) :
                 \E len2 \in 1..Min(TwoGapMaxLen, end - start2) :
                    /\ start2 + len2 <= end
                    /\ mm = macsmac_gaps_seq(macs, start1, start1 + len1,
                                             start2, start2 + len2))

\* TransferSlot::checkMetaMacWithMissingLateEntries: whether metamac is the
\* mac-of-macs with one late gap, or two, left out
MissingLateEntriesMatch(m, mm) ==
    Bind(MacSeq(m), LAMBDA macs :
    LET end == Len(macs)
        finalN == Min(SingleGapWindow, end)
        finalN2 == Min(TwoGapWindow, end)
    IN \/ \E countBack \in 1..finalN : \E len1 \in 1..Min(SingleGapMaxLen, countBack) :
            LET start1 == end - countBack
            IN /\ start1 + len1 <= end
               /\ mm = macsmac_gaps_seq(macs, start1, start1 + len1, end, end)
       \/ \E start1 \in (end - finalN2)..(end - 1) :
            \E len1 \in 1..Min(TwoGapMaxLen, end - start1) :
            /\ start1 + len1 <= end
            /\ \E start2 \in (start1 + len1 + 1)..(end - 1) :
                 \E len2 \in 1..Min(TwoGapMaxLen, end - start2) :
                    /\ start2 + len2 <= end
                    /\ mm = macsmac_gaps_seq(macs, start1, start1 + len1,
                                             start2, start2 + len2))

\* a faulty variant: the recovery puts metamac right and leaves currentmetamac
checkMetaMacWithMissingLateEntries_KeepsCurrent(s) ==
    IF MissingLateEntriesMatch(s.chunkmacs, s.metamac)
    THEN [s EXCEPT !.metamac = macsmac_of(s.chunkmacs),
                   !.ev.given = s.metamac,
                   !.ev.recovery = "true", !.verified = TRUE]
    ELSE [s EXCEPT !.ev.given = s.metamac, !.ev.recovery = "false"]

\* the step reports the metamac the check was given and its result
checkMetaMacWithMissingLateEntries(s) ==
    IF MissingLateEntriesMatch(s.chunkmacs, s.metamac)
    THEN [s EXCEPT !.currentmetamac = macsmac_of(s.chunkmacs),
                   !.metamac = macsmac_of(s.chunkmacs),
                   !.ev.given = s.metamac,
                   !.ev.recovery = "true", !.verified = TRUE]
    ELSE [s EXCEPT !.ev.given = s.metamac, !.ev.recovery = "false"]

\* the progress is reported when it has changed
ReportCompleted(s) ==
    IF s.progresscompleted # s.progressreported
    THEN [s EXCEPT !.progressreported = s.progresscompleted, !.sinceLastdata = 0]
    ELSE s

\* a faulty variant: the download completes whatever its mac-of-macs is
MetaMacDecision_NoCheck(s1) ==
    transfer_complete(ReportCompleted(s1))

\* a faulty variant: the chunk MACs are kept when the verification fails
MetaMacDecision_KeepMacs(s1) ==
    IF size = 0 \/ s1.currentmetamac = s1.metamac
    THEN transfer_complete(ReportCompleted(
            [s1 EXCEPT !.ev.macEqual = (size # 0),
                       !.verified = @ \/ (size # 0)]))
    ELSE Bind(checkMetaMacWithMissingLateEntries(s1), LAMBDA s2 :
            IF s2.ev.recovery = "true"
            THEN transfer_complete(ReportCompleted(s2))
            ELSE transfer_failed(s2, "API_EKEY", 0))

\* the tail of checkDownloadTransferFinished, the mac-of-macs being computed
MetaMacDecision(s1) ==
    IF size = 0 \/ s1.currentmetamac = s1.metamac
    THEN transfer_complete(ReportCompleted(
            [s1 EXCEPT !.ev.macEqual = (size # 0),
                       !.verified = @ \/ (size # 0)]))
    ELSE Bind(checkMetaMacWithMissingLateEntries(s1), LAMBDA s2 :
            IF s2.ev.recovery = "true"
            THEN transfer_complete(ReportCompleted(s2))
            ELSE transfer_failed([s2 EXCEPT !.chunkmacs = EmptyMacs],
                                 "API_EKEY", 0))

\* TransferSlot::checkDownloadTransferFinished; ret is set when it returns true
checkDownloadTransferFinished(s0) ==
    Bind(s0, LAMBDA s :
        IF s.progresscompleted # size THEN s
        ELSE IF s.progresscompleted # 0
             THEN Bind([s EXCEPT !.currentmetamac = macsmac_of(s.chunkmacs),
                                 !.ev.macChecked = TRUE],
                       LAMBDA s1 : MetaMacDecision(s1))
             ELSE MetaMacDecision(s))

RECURSIVE ContigWalk(_, _)
\* the loop of updatecontiguousprogress from p: where it stops, or, when an
\* iteration leaves progresscontiguous as it was, that it never ends
ContigWalk(m, p) ==
    IF p \in DOMAIN m /\ m[p].finished
    THEN IF chunkceil(p, size) = p THEN [p |-> p, ends |-> FALSE]
         ELSE ContigWalk(m, chunkceil(p, size))
    ELSE [p |-> p, ends |-> TRUE]

\* TransferSlot::updatecontiguousprogress
updatecontiguousprogress(s) ==
    Bind(ContigWalk(s.chunkmacs, s.progresscontiguous), LAMBDA w :
        [s EXCEPT !.progresscontiguous = w.p,
                  !.ev.loops = @ \/ ~w.ends])

(***************************************************************************)
(* TransferSlot::doio, case by case                                        *)
(***************************************************************************)
DEFAULT_BW_OVERQUOTA_BACKOFF_SECS == 3600

\* the posturl of a request starts with "http:"
PostUrlHttp(s) == s.client.urlhttp

\* atoi of a response body, as an error
BodyError(body) ==
    CASE body = "EKEY" -> "API_EKEY"
      [] body = "EFAILED" -> "DAEMON_EFAILED"
      [] body = "EARGS" -> "API_EARGS"
      [] OTHER -> "API_OK"

\* a body of NewNode::UPLOADTOKENLEN bytes
TokenSized(body) == body \in {"token_new", "token_old", "token_undecodable"}

\* the body is a new-style token, or Base64::atob yields OLDUPLOADTOKENLEN bytes
TokenOK(body) == body \in {"token_new", "token_old"}

\* TransferSlot::toggleport on the request's URL
toggleport(s, i) ==
    IF PostUrlHttp(s) THEN [s EXCEPT !.reqs[i].altport = ~@] ELSE s

\* a faulty variant: the connections that had stopped are not restarted
tryRaidRecoveryFromHttpGetError_NoRestart(s, i) ==
    IF raid /\ s.raidUnused = -1
    THEN [ok |-> TRUE,
          s |-> [s EXCEPT !.raidUnused = i, !.raidbuf.switched = TRUE,
                          !.reqs[i].status = "REQ_READY"]]
    ELSE [ok |-> FALSE, s |-> s]

\* TransferSlot::tryRaidRecoveryFromHttpGetError; ok tells the result
tryRaidRecoveryFromHttpGetError(s, i) ==
    IF raid /\ s.raidUnused = -1
    THEN [ok |-> TRUE,
          s |-> [s EXCEPT !.raidUnused = i,
                          !.raidbuf.switched = TRUE,
                          !.reqs = [j \in DOMAIN @ |->
                                      IF j = i \/ (j < s.connections
                                                   /\ @[j].status = "REQ_DONE")
                                      THEN [@[j] EXCEPT !.status = "REQ_READY"]
                                      ELSE @[j]]]]
    ELSE [ok |-> FALSE, s |-> s]

\* case REQ_INFLIGHT
CaseInflight(s, i) ==
    Bind([s EXCEPT !.p = @ + s.reqs[i].bufpos], LAMBDA s1 :
    Bind(IF type = GET /\ raid
            /\ s1.reqs[i].sinceData * TimeUnit > XFERTIMEOUT \div 2
            /\ connectionRaidPeersAreAllPaused(s1, i)
         THEN tryRaidRecoveryFromHttpGetError(s1, i)
         ELSE [ok |-> FALSE, s |-> s1],
         LAMBDA t :
            [t.s EXCEPT !.sinceLastdata = IF s1.reqs[i].sinceData < @
                                          THEN s1.reqs[i].sinceData ELSE @]))

\* the connections whose chunk MACs the token path includes besides i's own
TokenOthers(s, i) ==
    {j \in 0..(s.connections - 1) :
        /\ j # i
        /\ s.reqs[j].status \in {"REQ_INFLIGHT", "REQ_SUCCESS", "REQ_FAILURE"}}

RECURSIVE SizeSum(_, _)
SizeSum(rq, S) ==
    IF S = {} THEN 0
    ELSE LET j == CHOOSE x \in S : \A y \in S : x >= y
         IN rq[j].size + SizeSum(rq, S \ {j})

RECURSIVE MergeAll(_, _, _)
MergeAll(m, rq, S) ==
    IF S = {} THEN m
    ELSE LET j == CHOOSE x \in S : \A y \in S : x >= y
         IN MergeAll(finishedUploadChunks(m, rq[j].mChunkmacs), rq, S \ {j})

\* the upload token was accepted (tokenOK)
TokenAccepted(s, i) ==
    Bind(TokenOthers(s, i) \cup {i}, LAMBDA all :
    Bind(MergeAll(s.chunkmacs, s.reqs, all), LAMBDA m :
    Bind(s.progresscompleted + SizeSum(s.reqs, all), LAMBDA pc :
        transfer_complete(ReportCompleted(updatecontiguousprogress(
            [s EXCEPT !.errorcount = 0, !.chunkmacs = m,
                      !.progresscompleted = pc, !.ultoken = TRUE,
                      !.ev.token = TRUE, !.ev.tokenSum = pc,
                      !.ev.marks = Append(@, "S"),
                      !.ev.tokenOthers = all \ {i},
                      !.ev.tokenMacs = macsmac_of(m)]))))))

\* a faulty variant: an error body is taken at its word though the reply is
\* HTML on an http: URL
PutBodyError_NoHtmlTest(s1, i) ==
    LET r == s1.reqs[i]
        e == BodyError(r.in)
    IN IF e = "API_EKEY"
       THEN [s1 EXCEPT !.lasterror = e, !.errorcount = @ + 1,
                       !.ev.marks = Append(@, "E"),
                       !.reqs[i].status = "REQ_PREPARED"]
       ELSE IF e = "DAEMON_EFAILED"
       THEN transfer_failed([s1 EXCEPT !.client.usehttps = TRUE], "API_EAGAIN", 0)
       ELSE transfer_failed(s1, e, 0)

\* the response body is not empty and no token was accepted
PutBodyError(s1, i) ==
    LET r == s1.reqs[i]
        e == BodyError(r.in)
    IN IF e = "API_EKEY"
       THEN [s1 EXCEPT !.lasterror = e, !.errorcount = @ + 1,
                       !.ev.marks = Append(@, "E"),
                       !.reqs[i].status = "REQ_PREPARED"]
       ELSE IF e = "DAEMON_EFAILED" \/ (r.html /\ PostUrlHttp(s1))
       THEN transfer_failed([s1 EXCEPT !.client.usehttps = TRUE], "API_EAGAIN", 0)
       ELSE transfer_failed(s1, e, 0)

\* a faulty variant: progresscompleted is set to the acknowledged chunk's size
PutChunkAcked_Assign(s, i) ==
    Bind(updatecontiguousprogress(
            [s EXCEPT !.chunkmacs = finishedUploadChunks(@, s.reqs[i].mChunkmacs),
                      !.progresscompleted = s.reqs[i].size,
                      !.ev.acked = @ \cup {i}]),
         LAMBDA s1 :
            IF s1.progresscompleted = size
            THEN transfer_failed(s1, "API_EINTERNAL", 0)
            ELSE [s1 EXCEPT !.errorcount = 0, !.reqs[i].status = "REQ_READY"])

\* a faulty variant: the acknowledged chunk's bytes are not counted
PutChunkAcked_NoCount(s, i) ==
    Bind(updatecontiguousprogress(
            [s EXCEPT !.chunkmacs = finishedUploadChunks(@, s.reqs[i].mChunkmacs),
                      !.ev.acked = @ \cup {i}]),
         LAMBDA s1 :
            IF s1.progresscompleted = size
            THEN transfer_failed(s1, "API_EINTERNAL", 0)
            ELSE [s1 EXCEPT !.errorcount = 0, !.reqs[i].status = "REQ_READY"])

\* the response body is empty: the chunk is acknowledged
PutChunkAcked(s, i) ==
    Bind(updatecontiguousprogress(
            [s EXCEPT !.chunkmacs = finishedUploadChunks(@, s.reqs[i].mChunkmacs),
                      !.progresscompleted = @ + s.reqs[i].size,
                      !.ev.acked = @ \cup {i}]),
         LAMBDA s1 :
            IF s1.progresscompleted = size
            THEN transfer_failed(s1, "API_EINTERNAL", 0)
            ELSE [s1 EXCEPT !.errorcount = 0, !.reqs[i].status = "REQ_READY"])

\* case REQ_SUCCESS of an upload
CaseSuccessPut(s0, i) ==
    Bind([s0 EXCEPT !.ev.body = s0.reqs[i].in], LAMBDA s :
        LET r == s.reqs[i]
        IN IF r.in # ""
           THEN IF TokenSized(r.in)
                THEN IF TokenOK(r.in) THEN TokenAccepted(s, i)
                     ELSE Bind([s EXCEPT !.ultoken = FALSE],
                               LAMBDA s1 : PutBodyError(s1, i))
                ELSE PutBodyError(s, i)
           ELSE PutChunkAcked(s, i))

\* the piece of connection i goes to the worker, or is finalized at once
FinalizePiece(s1, i) ==
    IF s1.outbuf[i].present
    THEN IF NeedsParallel(s1.outbuf[i])
         THEN [s1 EXCEPT !.reqs[i].status = "REQ_DECRYPTING"]
         ELSE [s1 EXCEPT !.outbuf[i].finalized = TRUE,
                         !.reqs[i].status = "REQ_DECRYPTED"]
    ELSE IF raid THEN [s1 EXCEPT !.reqs[i].status = "REQ_READY"]
    ELSE s1

\* case REQ_SUCCESS of a download
CaseSuccessGet(s, i) ==
    LET r == s.reqs[i]
    IN IF r.size = r.bufpos \/ r.buffer_released
       THEN IF ~r.buffer_released
            THEN Bind([submitBuffer(s, i, r.pos, r.bufpos)
                          EXCEPT !.reqs[i].buffer_released = TRUE],
                      LAMBDA s1 :
                         FinalizePiece(getAsyncOutputBufferPointer(s1, i), i))
            ELSE FinalizePiece(getAsyncOutputBufferPointer(s, i), i)
       ELSE IF r.html /\ PostUrlHttp(s)
            THEN transfer_failed([s EXCEPT !.client.usehttps = TRUE],
                                 "API_EAGAIN", 0)
            ELSE [s EXCEPT !.lasterror = "API_EREAD", !.errorcount = @ + 1,
                           !.ev.marks = Append(@, "E"),
                           !.reqs[i].status = "REQ_PREPARED"]

\* a faulty variant: a chunk is never postponed
CaseSuccess_NoPostpone(s, i) ==
    Bind([s EXCEPT !.sinceLastdata = 0], LAMBDA s1 :
        IF type = PUT THEN CaseSuccessPut(s1, i) ELSE CaseSuccessGet(s1, i))

\* case REQ_SUCCESS
CaseSuccess(s, i) ==
    IF s.client.orderdownloadedchunks /\ type = GET /\ ~raid
       /\ s.progresscompleted # s.reqs[i].pos
    THEN [s EXCEPT !.p = @ + s.reqs[i].size,
                   !.ev.pExtra = @ + s.reqs[i].size]
    ELSE Bind([s EXCEPT !.sinceLastdata = 0], LAMBDA s1 :
            IF type = PUT THEN CaseSuccessPut(s1, i) ELSE CaseSuccessGet(s1, i))

\* the step reports a file operation of connection i on [pos, pos + len)
\* that failed, and whether the failure is a transient one (fa->retry)
IoFailed(s, i, pos0, len0, retry0) ==
    [s EXCEPT !.ev.iofail = @ \cup {[conn |-> i, pos |-> pos0, len |-> len0,
                                      retry |-> retry0,
                                      async |-> s.client.asyncavailable]}]

\* a faulty variant: the error count survives a successful write
WriteSucceeded_NoReset(s0, i) ==
    Bind(bufferWriteCompleted(s0, i, TRUE), LAMBDA s :
    Bind(checkDownloadTransferFinished(updatecontiguousprogress(s)),
         LAMBDA s2 :
            IF s2.ret THEN s2 ELSE [s2 EXCEPT !.reqs[i].status = "REQ_READY"]))

\* the write of a decrypted piece succeeded: release, count, verify when whole
WriteSucceeded(s0, i) ==
    Bind(bufferWriteCompleted(s0, i, TRUE), LAMBDA s :
    Bind(checkDownloadTransferFinished(
            updatecontiguousprogress([s EXCEPT !.errorcount = 0])),
         LAMBDA s2 :
            IF s2.ret THEN s2 ELSE [s2 EXCEPT !.reqs[i].status = "REQ_READY"]))

\* a faulty variant: a transient write failure drops the piece
CaseDecrypted_RetryDiscards(s, i) ==
    LET piece == s.outbuf[i]
    IN IF s.client.asyncavailable
       THEN [s EXCEPT !.p = @ + piece.len,
                      !.asyncIO[i] = [present |-> TRUE, finished |-> FALSE,
                                      failed |-> FALSE, retry |-> FALSE,
                                      pos |-> piece.pos, len |-> piece.len],
                      !.reqs[i].status = "REQ_ASYNCIO"]
       ELSE IF s.inp.iook[i]
            THEN WriteSucceeded(FileWrite(s, piece), i)
            ELSE Bind(IoFailed([s EXCEPT !.faults = @ + 1], i, piece.pos,
                               piece.len, s.inp.retry),
                      LAMBDA s1 :
                         IF ~s.inp.retry
                         THEN transfer_failed(bufferWriteCompleted(s1, i, FALSE),
                                              "API_EWRITE", 0)
                         ELSE [bufferWriteCompleted(s1, i, FALSE)
                                  EXCEPT !.lasterror = "API_EWRITE",
                                         !.backoff = 2])

\* case REQ_DECRYPTED
CaseDecrypted(s, i) ==
    LET piece == s.outbuf[i]
    IN IF s.client.asyncavailable
       THEN [s EXCEPT !.p = @ + piece.len,
                      !.ev.pExtra = @ + piece.len,
                      !.asyncIO[i] = [present |-> TRUE, finished |-> FALSE,
                                      failed |-> FALSE, retry |-> FALSE,
                                      pos |-> piece.pos, len |-> piece.len],
                      !.reqs[i].status = "REQ_ASYNCIO"]
       ELSE IF s.inp.iook[i]
            THEN WriteSucceeded(FileWrite(s, piece), i)
            ELSE Bind(IoFailed([s EXCEPT !.faults = @ + 1], i, piece.pos,
                               piece.len, s.inp.retry),
                      LAMBDA s1 :
                         IF ~s.inp.retry
                         THEN transfer_failed(bufferWriteCompleted(s1, i, FALSE),
                                              "API_EWRITE", 0)
                         ELSE [s1 EXCEPT !.lasterror = "API_EWRITE",
                                         !.backoff = 2])

\* case REQ_ASYNCIO
CaseAsyncIO(s, i) ==
    LET a == s.asyncIO[i]
    IN IF a.finished
       THEN IF ~a.failed
            THEN IF type = PUT
                 THEN [s EXCEPT !.reqs[i].pos = a.pos,
                                !.reqs[i].npos = a.pos + a.len,
                                !.reqs[i].altport =
                                    s.client.usealtport /\ s.client.urlhttp,
                                !.reqs[i].status = "REQ_ENCRYPTING",
                                !.asyncIO[i] = NoAsync]
                 ELSE Bind(WriteSucceeded(s, i), LAMBDA s1 :
                         IF s1.ret THEN s1
                         ELSE IF s1.client.orderdownloadedchunks /\ ~raid
                              THEN [s1 EXCEPT !.asyncIO[i] = NoAsync,
                                              !.restart = TRUE]
                              ELSE [s1 EXCEPT !.asyncIO[i] = NoAsync])
            ELSE Bind(IoFailed(s, i, a.pos, a.len, a.retry), LAMBDA s1 :
                 IF ~a.retry
                 THEN transfer_failed(
                         [bufferWriteCompleted(s1, i, FALSE)
                             EXCEPT !.asyncIO[i] = NoAsync],
                         IF type = PUT THEN "API_EREAD" ELSE "API_EWRITE", 0)
                 ELSE IF type = PUT
                      THEN [s1 EXCEPT !.lasterror = "API_EREAD",
                                      !.reqs[i].status = "REQ_READY", !.backoff = 2]
                      ELSE [s1 EXCEPT !.lasterror = "API_EWRITE",
                                      !.reqs[i].status = "REQ_SUCCESS", !.backoff = 2])
       ELSE IF type = GET
            THEN [s EXCEPT !.p = @ + a.len, !.ev.pExtra = @ + a.len]
            ELSE s

\* the last branch of case REQ_FAILURE: the first failure of the slot flags
\* it and may change the port; the request is queued again
RequeueFailed(s, i) ==
    LET changeport == s.client.autoport /\ s.client.urlhttp
    IN IF s.failure THEN [s EXCEPT !.reqs[i].status = "REQ_PREPARED"]
       ELSE Bind([s EXCEPT !.failure = TRUE,
                           !.client.usealtport = IF changeport THEN ~@ ELSE @],
                 LAMBDA s2 :
                    [(IF changeport THEN toggleport(s2, i) ELSE s2)
                        EXCEPT !.reqs[i].status = "REQ_PREPARED"])

\* a faulty variant: a timeleft of 0 is taken for the server's backoff
OverquotaBackoff_NoDefault(r) ==
    IF r.timeleft >= 0 THEN r.timeleft * 10
    ELSE DEFAULT_BW_OVERQUOTA_BACKOFF_SECS * 10

\* the backoff of a bandwidth overquota: the server's timeleft, in
\* deciseconds, or the client's default
OverquotaBackoff(r) ==
    IF r.timeleft > 0 THEN r.timeleft * 10
    ELSE DEFAULT_BW_OVERQUOTA_BACKOFF_SECS * 10

\* the recovery took part i out of the download: the step reports the
\* requests as they were before and after it
PartSwitched(s, t, i) ==
    [t EXCEPT !.ev.switch = [part |-> i, before |-> s.reqs, after |-> t.reqs]]

\* case REQ_FAILURE
CaseFailure(s, i) ==
    LET r == s.reqs[i]
    IN IF r.httpstatus # 0 /\ r.html /\ PostUrlHttp(s)
       THEN transfer_failed([s EXCEPT !.client.usehttps = TRUE], "API_EAGAIN", 0)
       ELSE IF r.httpstatus = 509
       THEN transfer_failed(s, "API_EOVERQUOTA", OverquotaBackoff(r))
       ELSE IF r.httpstatus = 429
       THEN [s EXCEPT !.backoff = 5, !.reqs[i].status = "REQ_PREPARED"]
       ELSE IF r.httpstatus = 503 /\ ~raid
       THEN [s EXCEPT !.backoff = 50, !.reqs[i].status = "REQ_PREPARED"]
       ELSE Bind(tryRaidRecoveryFromHttpGetError(s, i), LAMBDA t :
              IF r.httpstatus = 403 \/ r.httpstatus = 404
                 \/ (r.httpstatus = 503 /\ raid)
              THEN IF t.ok THEN PartSwitched(s, t.s, i)
                   ELSE transfer_failed(s, "API_EAGAIN", 0)
              ELSE IF r.httpstatus = 0 /\ t.ok
              THEN PartSwitched(s, t.s, i)
              ELSE RequeueFailed(s, i))

\* HttpReqXfer::prepare for [first, second): the request's range, and for an
\* upload the MACs of the chunks it encrypts
prepare(s, i, first, second) ==
    [s EXCEPT !.reqs[i] =
        [@ EXCEPT !.pos = first, !.size = second - first, !.bufpos = 0,
                  !.buffer_released = FALSE,
                  !.mChunkmacs = IF type = PUT THEN MacsOfRange(first, second, size)
                                 ELSE EmptyMacs,
                  !.altport = s.client.usealtport /\ s.client.urlhttp,
                  !.status = "REQ_PREPARED"]]

\* the upload branch of the READY block: read the range, asynchronously or not
ReadyPut(s1, i, posrange) ==
    LET retryread == s1.asyncIO[i].present
        p0 == IF retryread THEN s1.asyncIO[i].pos ELSE posrange.first
        sz == IF retryread THEN s1.asyncIO[i].len
              ELSE posrange.second - posrange.first
    IN IF s1.client.asyncavailable
       THEN [s1 EXCEPT !.asyncIO[i] = [present |-> TRUE, finished |-> FALSE,
                                       failed |-> FALSE, retry |-> FALSE,
                                       pos |-> p0, len |-> sz],
                       !.reqs[i].status = "REQ_ASYNCIO",
                       !.pos = Max(@, p0 + sz)]
       ELSE IF s1.inp.iook[i]
            THEN [prepare(s1, i, posrange.first, posrange.second)
                     EXCEPT !.pos = Max(@, posrange.second)]
            ELSE Bind(IoFailed([s1 EXCEPT !.faults = @ + 1], i, s1.pos,
                               posrange.second - posrange.first, s1.inp.retry),
                      LAMBDA s2 :
                         IF ~s1.inp.retry
                         THEN transfer_failed(s2, "API_EREAD", 0)
                         ELSE [s2 EXCEPT !.backoff = 2])

\* the step reports what the READY block of connection i was given (the
\* range, whether a piece is pending, whether a failed read awaits its
\* retry) and the status it left the request in
ReadyDecided(s, t, i, posrange) ==
    [t EXCEPT !.ev.ready = @ \cup
        {[conn |-> i, first |-> posrange.first, second |-> posrange.second,
          piece |-> s.outbuf[i].present, had |-> s.reqs[i].status # "NULL",
          retryread |-> s.asyncIO[i].present,
          readfailed |-> t.ev.iofail # s.ev.iofail,
          to |-> t.reqs[i].status,
          released |-> t.reqs[i].buffer_released]}]

\* a faulty variant: a failed read that awaits its retry is forgotten when
\* the upload has no range left
ReadyBlock_NoRetryRead(sb, i) ==
    Bind(getAsyncOutputBufferPointer(sb, i), LAMBDA s :
    LET r == s.reqs[i]
        posrange == nextNPosForConnection(sb, i)
    IN ReadyDecided(s,
       IF s.outbuf[i].present /\ r.status # "NULL"
       THEN [s EXCEPT !.reqs[i].status = "REQ_SUCCESS",
                      !.reqs[i].buffer_released = TRUE]
       ELSE IF posrange.second > posrange.first \/ size = 0
       THEN Bind(IF r.status = "NULL"
                 THEN [s EXCEPT !.reqs[i].status = "REQ_READY"] ELSE s,
                 LAMBDA s0 :
                    IF type = PUT
                    THEN Bind([s0 EXCEPT !.reqs[i].mChunkmacs = EmptyMacs],
                              LAMBDA s1 : ReadyPut(s1, i, posrange))
                    ELSE SetTransferPosMax(
                            prepare(s0, i, posrange.first, posrange.second),
                            i, posrange.second))
       ELSE IF r.status # "NULL"
       THEN [s EXCEPT !.reqs[i].status = "REQ_DONE"]
       ELSE s, i, posrange))

\* the READY block: hand the connection its next range, or its pending piece
ReadyBlock(sb, i) ==
    Bind(getAsyncOutputBufferPointer(sb, i), LAMBDA s :
    LET r == s.reqs[i]
        posrange == nextNPosForConnection(sb, i)
    IN ReadyDecided(s,
       IF s.outbuf[i].present /\ r.status # "NULL"
       THEN [s EXCEPT !.reqs[i].status = "REQ_SUCCESS",
                      !.reqs[i].buffer_released = TRUE]
       ELSE IF posrange.second > posrange.first \/ size = 0
               \/ (type = PUT /\ s.asyncIO[i].present)
       THEN Bind(IF r.status = "NULL"
                 THEN [s EXCEPT !.reqs[i].status = "REQ_READY"] ELSE s,
                 LAMBDA s0 :
                    IF type = PUT
                    THEN Bind([s0 EXCEPT !.reqs[i].mChunkmacs = EmptyMacs],
                              LAMBDA s1 : ReadyPut(s1, i, posrange))
                    ELSE SetTransferPosMax(
                            prepare(s0, i, posrange.first, posrange.second),
                            i, posrange.second))
       ELSE IF r.status # "NULL"
       THEN [s EXCEPT !.reqs[i].status = "REQ_DONE"]
       ELSE s, i, posrange))

\* reqs[i]->post(client)
post(s, i) ==
    [s EXCEPT !.reqs[i] = [@ EXCEPT !.status = "REQ_INFLIGHT", !.bufpos = 0,
                                    !.in = "", !.httpstatus = 0, !.html = FALSE,
                                    !.timeleft = -1, !.sinceData = 0],
              !.ev.posted = @ \cup {i}]

\* the statuses in which a request is the worker thread's
WorkerOwned == {"REQ_DECRYPTING", "REQ_ENCRYPTING"}

\* a faulty variant: a piece still being decrypted is written
SwitchStatus_TakesDecrypting(s0, i) ==
    LET st == s0.reqs[i].status
    IN CASE st = "REQ_INFLIGHT" -> CaseInflight(s0, i)
         [] st = "REQ_SUCCESS" -> CaseSuccess(s0, i)
         [] st \in {"REQ_DECRYPTED", "REQ_DECRYPTING"} -> CaseDecrypted(s0, i)
         [] st = "REQ_ASYNCIO" -> CaseAsyncIO(s0, i)
         [] st = "REQ_FAILURE" -> CaseFailure(s0, i)
         [] OTHER -> s0

\* the switch on the request's status; there is no case for a request the
\* worker owns, which the step reports as passed over
SwitchStatus(s0, i) ==
    LET st == s0.reqs[i].status
    IN CASE st = "REQ_INFLIGHT" -> CaseInflight(s0, i)
         [] st = "REQ_SUCCESS" -> CaseSuccess(s0, i)
         [] st = "REQ_DECRYPTED" -> CaseDecrypted(s0, i)
         [] st = "REQ_ASYNCIO" -> CaseAsyncIO(s0, i)
         [] st = "REQ_FAILURE" -> CaseFailure(s0, i)
         [] st \in WorkerOwned -> [s0 EXCEPT !.ev.owned = @ \cup {i}]
         [] OTHER -> s0

\* if (!failure): the READY block, then the post of a prepared request
AfterSwitch(s1, i) ==
    IF s1.ret \/ s1.restart \/ s1.failure THEN s1
    ELSE Bind(IF s1.reqs[i].status \in {"NULL", "REQ_READY"}
              THEN ReadyBlock(s1, i) ELSE s1,
              LAMBDA s2 :
                 IF s2.ret \/ s2.restart \/ s2.failure THEN s2
                 ELSE IF s2.reqs[i].status = "REQ_PREPARED" /\ s2.backoff = 0
                      THEN post(s2, i)
                      ELSE s2)

\* one pass of the loop body for connection i
\* a RAID part request that failed after a 200 reply keeps what it received,
\* cut to whole RAIDSECTORs, and counts as a success with less data
KeepPartialPart(s, i) ==
    LET r == s.reqs[i]
    IN IF r.status = "REQ_FAILURE" /\ r.httpstatus = 200 /\ type = GET /\ raid
          /\ r.bufpos >= RAIDSECTOR
       THEN LET kept == r.bufpos - (r.bufpos % RAIDSECTOR)
            IN [s EXCEPT !.reqs[i].bufpos = kept, !.reqs[i].size = kept,
                         !.raidbuf.pos[i] = kept,
                         !.reqs[i].status = "REQ_SUCCESS",
                         !.ev.kept = @ \cup {[conn |-> i, start |-> r.pos,
                                              got |-> r.bufpos, kept |-> kept,
                                              next |-> kept]}]
       ELSE s

ServiceConnection(s, i) ==
    Bind([s EXCEPT !.ev.serviced = @ \cup {i}], LAMBDA s0 :
        IF s0.reqs[i].status = "NULL" THEN AfterSwitch(s0, i)
        ELSE Bind(detectSlowestRaidConnection(s0, i), LAMBDA d :
                IF d.hit
                THEN [resetPart(d.s, d.slowest)
                         EXCEPT !.reqs[d.slowest] = NoReq, !.restart = TRUE]
                ELSE Bind(SwitchStatus(KeepPartialPart(d.s, i), i),
                          LAMBDA s1 : AfterSwitch(s1, i))))

RECURSIVE ConnectionLoop(_, _)
\* for (int i = connections; i--; ), with the "i = connections; continue"
ConnectionLoop(s0, i) ==
    Bind(s0, LAMBDA s :
        IF s.ret \/ i = 0 THEN s
        ELSE Bind(ServiceConnection(s, i - 1), LAMBDA s1 :
                IF s1.restart
                THEN ConnectionLoop([s1 EXCEPT !.restart = FALSE], s1.connections)
                ELSE ConnectionLoop(s1, i - 1)))

\* a faulty variant: a file of exactly 131072 bytes gets the configured count
ConnectionCount_AtLeast ==
    IF raid THEN RAIDPARTS
    ELSE IF size >= SingleConnectionLimit THEN ClientConnections ELSE 1

\* TransferSlot::createconnectionsonce; ok is what it returns
ConnectionCount ==
    IF raid THEN RAIDPARTS
    ELSE IF size > SingleConnectionLimit THEN ClientConnections ELSE 1

createconnectionsonce(s) ==
    IF s.connections = 0
    THEN IF ~tempurls THEN [ok |-> FALSE, s |-> s]
         ELSE [ok |-> TRUE,
               s |-> [s EXCEPT
                        !.connections = ConnectionCount,
                        !.reqs = [i \in 0..(ConnectionCount - 1) |-> NoReq],
                        !.asyncIO = [i \in 0..(ConnectionCount - 1) |-> NoAsync],
                        !.outbuf = [i \in 0..(ConnectionCount - 1) |-> NoPiece],
                        !.raidbuf = IF raid
                                    THEN [pos |-> [i \in Conns |-> 0],
                                          got |-> [i \in Conns |-> 0],
                                          started |-> {}, out |-> FALSE,
                                          outpos |-> 0, switched |-> FALSE]
                                    ELSE NoRaidBuf,
                        !.ev.created = TRUE]]
    ELSE [ok |-> TRUE, s |-> s]

\* a faulty variant: the timeout strikes only after more than XFERTIMEOUT
Timeout_Strict(s) ==
    LET inflight == {i \in 0..(s.connections - 1) :
                        s.reqs[i].status = "REQ_INFLIGHT"}
        changeport == s.client.autoport /\ s.client.urlhttp
    IN IF s.sinceLastdata * TimeUnit > XFERTIMEOUT /\ ~s.failure
       THEN Bind([s EXCEPT
                    !.failure = TRUE,
                    !.client.usealtport = IF changeport THEN ~@ ELSE @,
                    !.reqs = [i \in DOMAIN @ |->
                        IF i \in inflight
                        THEN [@[i] EXCEPT
                                !.status = "REQ_PREPARED",
                                !.altport = IF changeport THEN ~@ ELSE @]
                        ELSE @[i]]],
                 LAMBDA s2 :
                    IF inflight = {} THEN transfer_failed(s2, "API_EAGAIN", 0)
                    ELSE s2)
       ELSE s

\* the no-data timeout: the requests in flight are queued again, the port
\* may change; with none in flight the transfer fails
Timeout(s) ==
    LET inflight == {i \in 0..(s.connections - 1) :
                        s.reqs[i].status = "REQ_INFLIGHT"}
        changeport == s.client.autoport /\ s.client.urlhttp
    IN IF s.sinceLastdata * TimeUnit >= XFERTIMEOUT /\ ~s.failure
       THEN Bind([s EXCEPT
                    !.failure = TRUE,
                    !.client.usealtport = IF changeport THEN ~@ ELSE @,
                    !.reqs = [i \in DOMAIN @ |->
                        IF i \in inflight
                        THEN [@[i] EXCEPT
                                !.status = "REQ_PREPARED",
                                !.altport = IF changeport THEN ~@ ELSE @]
                        ELSE @[i]]],
                 LAMBDA s2 :
                    IF inflight = {} THEN transfer_failed(s2, "API_EAGAIN", 0)
                    ELSE s2)
       ELSE s

\* a faulty variant: the retry timer is armed whether the slot has failed
\* or not
TimeoutAndBackoff_FailureOrNot(s) ==
    Bind(Timeout([s EXCEPT !.ev.atTimeout =
                    [reached |-> TRUE, age |-> s.sinceLastdata,
                     failure |-> s.failure, reqs |-> s.reqs]]),
         LAMBDA s1 :
        IF ~s1.ret /\ s1.backoff > 0
        THEN [s1 EXCEPT !.retrybt = s1.backoff, !.retrying = TRUE]
        ELSE s1)

\* the end of the tick: the no-data timeout and the retry timer
TimeoutAndBackoff(s) ==
    Bind(Timeout([s EXCEPT !.ev.atTimeout =
                    [reached |-> TRUE, age |-> s.sinceLastdata,
                     failure |-> s.failure, reqs |-> s.reqs]]),
         LAMBDA s1 :
        IF ~s1.ret /\ ~s1.failure /\ s1.backoff > 0
        THEN [s1 EXCEPT !.retrybt = s1.backoff, !.retrying = TRUE]
        ELSE s1)

\* the progress report after the loop
ReportProgress(s) ==
    Bind(s.p + s.progresscompleted + RaidProgress(s), LAMBDA p :
        IF p # s.progressreported
        THEN [s EXCEPT !.progressreported = p, !.sinceLastdata = 0,
                       !.ev.p = p]
        ELSE [s EXCEPT !.ev.p = p])

\* a faulty variant: the tick completes the transfer, token or not
TickEntry_NoToken(s) ==
    transfer_complete([s EXCEPT !.retrybt = 2, !.retrying = TRUE])

\* the start of a tick when the file is gone, the download whole, or the
\* upload token there
TickEntry(s) ==
    IF type = GET \/ s.ultoken
    THEN IF s.fa /\ type = GET
         THEN Bind([s EXCEPT !.currentmetamac = macsmac_of(s.chunkmacs),
                             !.ev.macChecked = TRUE],
                   LAMBDA s1 :
                      IF s1.currentmetamac = s1.metamac
                      THEN transfer_complete([s1 EXCEPT !.ev.macEqual = TRUE,
                                                        !.verified = TRUE])
                      ELSE transfer_failed([s1 EXCEPT !.chunkmacs = EmptyMacs],
                                           "API_EKEY", 0))
         ELSE transfer_complete([s EXCEPT !.retrybt = 2, !.retrying = TRUE])
    ELSE transfer_failed(s, "API_EINTERNAL", 0)

\* a faulty variant: the transfer is given up one error later
ServiceAll_Above5(s) ==
    IF s.errorcount > 5
    THEN transfer_failed(s, s.lasterror, 0)
    ELSE Bind(ConnectionLoop(s, s.connections), LAMBDA s1 :
            IF s1.ret THEN s1
            ELSE Bind(ReportProgress(s1), LAMBDA s2 : TimeoutAndBackoff(s2)))

\* the connections are serviced, then progress, timeout and backoff
ServiceAll(s) ==
    IF s.errorcount > 4
    THEN transfer_failed(s, s.lasterror, 0)
    ELSE Bind(ConnectionLoop(s, s.connections), LAMBDA s1 :
            IF s1.ret THEN s1
            ELSE Bind(ReportProgress(s1), LAMBDA s2 : TimeoutAndBackoff(s2)))

\* TransferSlot::doio
doio(s0) ==
    Bind(s0, LAMBDA s :
        IF ~s.fa \/ (size # 0 /\ s.progresscompleted = size)
           \/ (type = PUT /\ s.ultoken)
        THEN TickEntry(s)
        ELSE Bind(createconnectionsonce([s EXCEPT !.retrying = FALSE,
                                                  !.retrybt = 0]),
                  LAMBDA c : IF ~c.ok THEN c.s ELSE ServiceAll(c.s)))

(***************************************************************************)
(* TransferSlot::~TransferSlot                                             *)
(***************************************************************************)
\* asyncIO[k]->finish(): the operation is waited for; then the piece is
\* released according to its result
DtorFinishOne(t, k) ==
    LET a == t.asyncIO[k]
        ok == IF a.finished THEN ~a.failed ELSE t.inp.iook[k]
    IN IF t.reqs[k].status = "REQ_ASYNCIO" /\ a.present
       THEN IF ok
            THEN [bufferWriteCompleted(
                     IF a.finished THEN t ELSE FileWrite(t, t.outbuf[k]), k, TRUE)
                    EXCEPT !.reqs[k].status = "REQ_READY",
                           !.asyncIO[k] = NoAsync,
                           !.ev.cached = TRUE]
            ELSE [bufferWriteCompleted(t, k, FALSE)
                    EXCEPT !.reqs[k].status = "REQ_READY",
                           !.asyncIO[k] = NoAsync]
       ELSE [t EXCEPT !.asyncIO[k] = NoAsync]

RECURSIVE DtorFinishFrom(_, _)
DtorFinishFrom(s0, k) ==
    Bind(s0, LAMBDA s :
        IF k >= s.connections THEN s
        ELSE DtorFinishFrom(DtorFinishOne(s, k), k + 1))

\* the asynchronous writes are waited for, and the file reopened synchronously
DtorFinishAsync(s) ==
    IF s.fa /\ s.client.asyncavailable
    THEN [DtorFinishFrom(s, 0) EXCEPT !.fa = s.inp.openok]
    ELSE s

\* the data of requests in flight is kept; decryption in progress is awaited
DtorCollect(s0) ==
    Bind(s0, LAMBDA s :
    [s EXCEPT
        !.reqs = [i \in DOMAIN @ |->
            IF @[i].status = "REQ_INFLIGHT" /\ s.fa /\ @[i].bufpos >= BLOCKSIZE
            THEN [@[i] EXCEPT !.size = 0, !.bufpos = 0]
            ELSE IF @[i].status = "REQ_DECRYPTING"
                 THEN [@[i] EXCEPT !.status = "REQ_DECRYPTED"]
            ELSE @[i]],
        !.raidbuf.got = [i \in DOMAIN @ |->
            IF s.reqs[i].status = "REQ_INFLIGHT" /\ s.fa
               /\ s.reqs[i].bufpos >= BLOCKSIZE /\ s.reqs[i].pos = @[i]
            THEN @[i] + s.reqs[i].bufpos - (s.reqs[i].bufpos % RAIDSECTOR)
            ELSE @[i]],
        !.outbuf = [i \in DOMAIN @ |->
            IF s.reqs[i].status = "REQ_INFLIGHT" /\ s.fa /\ ~raid
               /\ s.reqs[i].bufpos >= BLOCKSIZE
            THEN [present |-> TRUE, pos |-> s.reqs[i].pos,
                  len |-> s.reqs[i].bufpos - (s.reqs[i].bufpos % RAIDSECTOR),
                  finalized |-> FALSE]
            ELSE IF s.reqs[i].status = "REQ_DECRYPTING"
                 THEN [@[i] EXCEPT !.finalized = TRUE]
            ELSE @[i]]])

\* a faulty variant: the flushed piece counts as cached without its write
DtorFlushPiece_NoWrite(s, i) ==
    bufferWriteCompleted([s EXCEPT !.outbuf[i].finalized = TRUE,
                                   !.ev.flushed = @ \cup {i}], i, TRUE)

\* one output piece of the flush: finalize, write, release
DtorFlushPiece(s, i) ==
    Bind([s EXCEPT !.outbuf[i].finalized = TRUE, !.ev.flushed = @ \cup {i}],
         LAMBDA s1 :
            IF s1.fa /\ s1.inp.iook[i]
            THEN [bufferWriteCompleted(FileWrite(s1, s1.outbuf[i]), i, TRUE)
                     EXCEPT !.ev.cached = TRUE]
            ELSE bufferWriteCompleted(s1, i, FALSE))

\* for (i = 0; i < connections; ++i): a connection that has an output piece
\* sets anyData
RECURSIVE DtorFlushFrom(_, _)
DtorFlushFrom(s0, i) ==
    Bind(IF i < s0.connections THEN getAsyncOutputBufferPointer(s0, i) ELSE s0,
         LAMBDA s :
        IF i >= s.connections THEN s
        ELSE DtorFlushFrom(IF s.outbuf[i].present
                           THEN [DtorFlushPiece(s, i) EXCEPT !.ev.anyData = TRUE]
                           ELSE s,
                           i + 1))

\* a faulty variant: the pass leaves out connection 0
DtorFlushPass_FromOne(s) == DtorFlushFrom([s EXCEPT !.ev.anyData = FALSE], 1)

\* one pass of the loop: anyData = false, then every connection
DtorFlushPass(s) == DtorFlushFrom([s EXCEPT !.ev.anyData = FALSE], 0)

\* while (anyData): passes are made until one finds no piece; the model
\* follows the loop for MaxPasses passes
RECURSIVE DtorFlushWhile(_, _)
DtorFlushWhile(s0, n) ==
    Bind(DtorFlushPass(s0), LAMBDA s :
        IF s.ev.anyData /\ n + 1 < MaxPasses
        THEN DtorFlushWhile(s, n + 1)
        ELSE [s EXCEPT !.ev.passes = n + 1])

DtorFlush(s) == DtorFlushWhile(s, 0)

\* the slot's own fields go with the slot; the transfer's stay
SlotGone(s1) ==
    [s1 EXCEPT !.slot = "gone",
               !.ev.undrained = {i \in DOMAIN s1.outbuf : s1.outbuf[i].present},
               !.fa = FALSE, !.connections = 0,
               !.reqs = [i \in {} |-> NoReq],
               !.asyncIO = [i \in {} |-> NoAsync],
               !.outbuf = [i \in {} |-> NoPiece],
               !.errorcount = 0, !.lasterror = "API_OK", !.failure = FALSE,
               !.retrying = FALSE, !.retrybt = 0, !.progresscontiguous = 0,
               !.progressreported = 0, !.sinceLastdata = 0,
               !.raidUnused = -1, !.raidbuf = NoRaidBuf, !.faults = 0]

destructor(s) ==
    IF type = GET /\ ~finished /\ s.progresscompleted # size
    THEN SlotGone(DtorFlush(DtorCollect(DtorFinishAsync(s))))
    ELSE SlotGone(s)

(***************************************************************************)
(* The steps of the system: the client's transfer loop calling doio, the   *)
(* HTTP layer, the worker threads, the filesystem, and the slot's deletion *)
(***************************************************************************)
\* the faults the environment may inject into one transfer
FaultBudget == budget

\* what a step may be told by the filesystem: the connections whose read or
\* write fails, whether a failure is worth a retry, whether the file reopens
IoOutcome(F, r, o) == [iook |-> [i \in Conns |-> i \notin F], retry |-> r, openok |-> o]

IoFine == IoOutcome({}, FALSE, TRUE)

\* the connections a tick may read (upload) or write (download) for
DoioIo ==
    {i \in 0..(ConnectionCount - 1) :
        /\ ~client.asyncavailable
        /\ \/ type = PUT
           \/ (i \in DOMAIN reqs /\ reqs[i].status = "REQ_DECRYPTED")}

\* a tick's reads and writes
DoioInputs ==
    IF faults < FaultBudget
    THEN {IoFine} \cup {IoOutcome(F, r, TRUE) :
                            F \in (SUBSET DoioIo) \ {{}}, r \in BOOLEAN}
    ELSE {IoFine}

\* the connections the destructor may write for
DtorIo ==
    {i \in DOMAIN reqs :
        /\ type = GET
        /\ outbuf[i].present \/ reqs[i].status = "REQ_INFLIGHT"}

\* the destructor's writes, and its reopening of the file
DtorInputs ==
    IF faults < FaultBudget
    THEN {IoOutcome(F, FALSE, o) :
            F \in SUBSET DtorIo,
            o \in IF type = GET /\ fa /\ client.asyncavailable
                  THEN BOOLEAN ELSE {TRUE}}
    ELSE {IoFine}

Step(s0) == \E s \in {s0} : Commit(s) /\ UNCHANGED <<type, size, raid, budget, dtor, rd, cl, tp, tfa, nodes>>

\* the transfer loop runs the slot's doio
Doio ==
    /\ slot \in {"active", "completing"}
    /\ \E inp \in DoioInputs : Step(doio(Cur("doio", inp)))
    /\ UNCHANGED <<srv, finished, tempurls>>

\* the API command that fetches the temporary URLs completes
TempUrlsArrive ==
    /\ slot = "active"
    /\ ~tempurls
    /\ tempurls' = TRUE
    /\ Step(Cur("env", IoFine))
    /\ UNCHANGED <<srv, finished>>

\* part of a request's body has been transferred
HttpData ==
    \E i \in 0..(connections - 1) :
        /\ slot = "active"
        /\ reqs[i].status = "REQ_INFLIGHT"
        /\ reqs[i].bufpos = 0
        /\ reqs[i].size > PartialLen
        /\ Step([Cur("env", IoFine) EXCEPT !.reqs[i].bufpos = PartialLen,
                                            !.reqs[i].sinceData = 0])
        /\ UNCHANGED <<srv, finished, tempurls>>

\* the chunks an upload request carries
ChunksOf(r) == DOMAIN r.mChunkmacs

\* a download request completes with its whole range
HttpSuccessGet ==
    \E i \in 0..(connections - 1) :
        /\ slot = "active"
        /\ type = GET
        /\ reqs[i].status = "REQ_INFLIGHT"
        /\ Step([Cur("env", IoFine) EXCEPT
                    !.reqs[i].status = "REQ_SUCCESS",
                    !.reqs[i].httpstatus = 200,
                    !.reqs[i].bufpos = reqs[i].size,
                    !.reqs[i].sinceData = 0])
        /\ UNCHANGED <<srv, finished, tempurls>>

\* a download request completes short of its range
HttpShortGet ==
    \E i \in 0..(connections - 1) : \E h \in BOOLEAN :
        /\ slot = "active"
        /\ type = GET
        /\ faults < FaultBudget
        /\ reqs[i].status = "REQ_INFLIGHT"
        /\ reqs[i].bufpos < reqs[i].size
        /\ Step([Cur("env", IoFine) EXCEPT
                    !.reqs[i].status = "REQ_SUCCESS",
                    !.reqs[i].httpstatus = 200,
                    !.reqs[i].html = h,
                    !.faults = @ + 1])
        /\ UNCHANGED <<srv, finished, tempurls>>

\* the storage server stores an upload request's chunks and answers: nothing
\* while chunks are missing, the upload token once it holds the whole file
HttpSuccessPut ==
    \E i \in 0..(connections - 1) : \E tok \in {"token_new", "token_old"} :
        LET srv2 == srv \cup ChunksOf(reqs[i])
        IN /\ slot = "active"
           /\ type = PUT
           /\ reqs[i].status = "REQ_INFLIGHT"
           /\ srv' = srv2
           /\ Step([Cur("env", IoFine) EXCEPT
                       !.reqs[i].status = "REQ_SUCCESS",
                       !.reqs[i].httpstatus = 200,
                       !.reqs[i].bufpos = reqs[i].size,
                       !.reqs[i].in = IF srv2 = ChunkStarts(size) THEN tok ELSE "",
                       !.reqs[i].sinceData = 0])
           /\ UNCHANGED <<finished, tempurls>>

\* the bodies of an upload response that are neither empty nor a good token
BadBodies == {"token_undecodable", "EKEY", "EFAILED", "EARGS", "garbage"}

\* the storage server, or something between it and the client, answers an
\* upload request with something else: an error code, an undecodable token,
\* a page of HTML, or no token although the file is whole
HttpBadPut ==
    \E i \in 0..(connections - 1) : \E body \in BadBodies \cup {""} :
      \E h \in BOOLEAN :
        LET stored == body = ""
            srv2 == IF stored THEN srv \cup ChunksOf(reqs[i]) ELSE srv
        IN /\ slot = "active"
           /\ type = PUT
           /\ faults < FaultBudget
           /\ reqs[i].status = "REQ_INFLIGHT"
           /\ stored => (srv2 = ChunkStarts(size) /\ ~h)
           /\ srv' = srv2
           /\ Step([Cur("env", IoFine) EXCEPT
                       !.reqs[i].status = "REQ_SUCCESS",
                       !.reqs[i].httpstatus = 200,
                       !.reqs[i].bufpos = reqs[i].size,
                       !.reqs[i].in = body,
                       !.reqs[i].html = h,
                       !.reqs[i].sinceData = 0,
                       !.faults = @ + 1])
           /\ UNCHANGED <<finished, tempurls>>

HttpStatuses == {0, 200, 403, 404, 429, 500, 503, 509}
\* the timeleft of a reply: none (-1), 0, or some seconds
TimeLefts == {-1, 0, 7}

\* what a RAID part request that fails after its 200 reply has received
PartFailLens == {0, 40}

\* request i fails with HTTP status hs (0: a network error), a reply that is
\* HTML or not, a timeleft, len bytes received; got: the chunks of an upload
\* reached the server all the same
RequestFails(i, hs, h, tl, got, len) ==
    /\ slot = "active"
    /\ faults < FaultBudget
    /\ reqs[i].status = "REQ_INFLIGHT"
    /\ h => hs \notin {0, 200}
    /\ hs = 200 => (raid /\ type = GET)
    /\ len # 0 => hs = 200
    /\ tl # -1 => hs = 509
    /\ got => (hs = 0 /\ type = PUT)
    /\ srv' = IF got THEN srv \cup ChunksOf(reqs[i]) ELSE srv
    /\ Step([Cur("env", IoFine) EXCEPT
                !.reqs[i].status = "REQ_FAILURE",
                !.reqs[i].httpstatus = hs,
                !.reqs[i].bufpos = IF hs = 200 THEN len ELSE @,
                !.reqs[i].html = h,
                !.reqs[i].timeleft = tl,
                !.faults = @ + 1])
    /\ UNCHANGED <<finished, tempurls>>

\* a request fails: a network error or an HTTP error status
HttpFailure ==
    \E i \in 0..(connections - 1) : \E hs \in HttpStatuses : \E h \in BOOLEAN :
      \E tl \in TimeLefts : \E got \in BOOLEAN : \E len \in PartFailLens :
        RequestFails(i, hs, h, tl, got, len)

\* a part request of a RAID download fails
RaidPartFails ==
    \E i \in (RAIDPARTS - FaultyParts)..(connections - 1) :
      \E hs \in HttpStatuses : \E tl \in TimeLefts : \E len \in PartFailLens :
        RequestFails(i, hs, FALSE, tl, FALSE, len)

\* the worker thread finishes decrypting connection i's output piece
WorkerDecrypt ==
    \E i \in 0..(connections - 1) :
        /\ slot = "active"
        /\ reqs[i].status = "REQ_DECRYPTING"
        /\ Step([Cur("env", IoFine) EXCEPT
                    !.reqs[i].status = "REQ_DECRYPTED",
                    !.outbuf[i].finalized = TRUE])
        /\ UNCHANGED <<srv, finished, tempurls>>

\* the worker thread encrypts an upload request's data: req->prepare
WorkerEncrypt ==
    \E i \in 0..(connections - 1) :
        /\ slot = "active"
        /\ reqs[i].status = "REQ_ENCRYPTING"
        /\ Step([Cur("env", IoFine) EXCEPT
                    !.reqs[i] =
                        [@ EXCEPT !.size = reqs[i].npos - reqs[i].pos,
                                  !.bufpos = 0,
                                  !.mChunkmacs = MacsOfRange(reqs[i].pos,
                                                             reqs[i].npos, size),
                                  !.status = "REQ_PREPARED"]])
        /\ UNCHANGED <<srv, finished, tempurls>>

\* an asynchronous read (upload) or write (download) finishes
AsyncIoComplete ==
    \E i \in 0..(connections - 1) : \E ok \in BOOLEAN : \E r \in BOOLEAN :
        LET s0 == Cur("env", IoFine)
            s1 == IF ok /\ type = GET THEN FileWrite(s0, outbuf[i]) ELSE s0
        IN /\ slot = "active"
           /\ reqs[i].status = "REQ_ASYNCIO"
           /\ asyncIO[i].present /\ ~asyncIO[i].finished
           /\ ~ok => faults < FaultBudget
           /\ ok => ~r
           /\ Step([s1 EXCEPT !.asyncIO[i].finished = TRUE,
                              !.asyncIO[i].failed = ~ok,
                              !.asyncIO[i].retry = r,
                              !.faults = IF ok THEN @ ELSE @ + 1])
           /\ UNCHANGED <<srv, finished, tempurls>>

\* a TimeUnit passes without data on any request
TimePasses ==
    /\ slot = "active"
    /\ connections > 0
    /\ sinceLastdata < MaxAge
    /\ Step([Cur("env", IoFine) EXCEPT
                !.sinceLastdata = @ + 1,
                !.reqs = [i \in DOMAIN @ |->
                            IF @[i].status = "REQ_INFLIGHT"
                            THEN [@[i] EXCEPT !.sinceData = Min(@ + 1, MaxAge)]
                            ELSE @[i]]])
    /\ UNCHANGED <<srv, finished, tempurls>>

\* the completion that transfer->complete started succeeds: the transfer is
\* finished and its slot deleted
Completed ==
    /\ slot = "completing"
    /\ finished' = TRUE
    /\ \E inp \in DtorInputs : Step(destructor(Cur("dtor", inp)))
    /\ UNCHANGED <<srv, tempurls>>

\* the slot is deleted: after transfer->failed, or because the transfer is
\* paused, cancelled or the client shuts down
Destroy ==
    /\ slot \in {"active", "failed"}
    /\ \E inp \in DtorInputs : Step(destructor(Cur("dtor", inp)))
    /\ UNCHANGED <<srv, finished, tempurls>>

Next ==
    \/ Doio
    \/ TempUrlsArrive
    \/ HttpData
    \/ HttpSuccessGet
    \/ HttpShortGet
    \/ HttpSuccessPut
    \/ HttpBadPut
    \/ HttpFailure
    \/ WorkerDecrypt
    \/ WorkerEncrypt
    \/ AsyncIoComplete
    \/ TimePasses
    \/ Completed
    \/ Destroy

Spec == Init /\ [][Next]_vars

\* the sizes of the RAID downloads of the model
RaidSizes == {SEGSIZE - 1, SEGSIZE}

\* a slot constructed for a new RAID download
InitRaid ==
    /\ type = GET
    /\ size \in RaidSizes
    /\ pos = 0
    /\ progresscompleted = 0
    /\ chunkmacs = EmptyMacs
    /\ ultoken = FALSE
    /\ written = [c \in ChunkStarts(size) |-> 0]
    /\ srv = {}
    /\ metamac \in {macsmac_of(FullMacs(size)), BadMac}
    /\ currentmetamac = <<>>
    /\ finished = FALSE
    /\ slot = "active"
    /\ fa = TRUE
    /\ connections = 0
    /\ reqs = [i \in {} |-> NoReq]
    /\ asyncIO = [i \in {} |-> NoAsync]
    /\ errorcount = 0
    /\ lasterror = "API_OK"
    /\ failure = FALSE
    /\ retrying = FALSE
    /\ retrybt = 0
    /\ progresscontiguous = 0
    /\ progressreported = 0
    /\ sinceLastdata = 0
    /\ tempurls \in BOOLEAN
    /\ raid = TRUE
    /\ raidUnused = -1
    /\ raidbuf = NoRaidBuf
    /\ outbuf = [i \in {} |-> NoPiece]
    /\ client \in {c \in ClientConfigs : ~c.orderdownloadedchunks /\ ~c.urlhttp}
    /\ faults = 0
    /\ budget = MaxRaidFaults
    /\ verified = FALSE
    /\ dtor = NoDtor
    /\ rd = NoRead /\ nodes = NoNodes /\ tfa = NoFileAccess /\ tp = NoToggle
    /\ cl = NoClient
    /\ ev = NoEvent

\* the slots of downloads that are RAID and of transfers that are not
SpecRaid == (Init \/ InitRaid) /\ [][Next]_vars

\* a slot constructed for a new RAID download, with its temporary URLs, whose
\* parts may fail
InitRaidFail ==
    /\ type = GET
    /\ size = SEGSIZE
    /\ pos = 0
    /\ progresscompleted = 0
    /\ chunkmacs = EmptyMacs
    /\ ultoken = FALSE
    /\ written = [c \in ChunkStarts(size) |-> 0]
    /\ srv = {}
    /\ metamac = macsmac_of(FullMacs(size))
    /\ currentmetamac = <<>>
    /\ finished = FALSE
    /\ slot = "active"
    /\ fa = TRUE
    /\ connections = 0
    /\ reqs = [i \in {} |-> NoReq]
    /\ asyncIO = [i \in {} |-> NoAsync]
    /\ errorcount = 0
    /\ lasterror = "API_OK"
    /\ failure = FALSE
    /\ retrying = FALSE
    /\ retrybt = 0
    /\ progresscontiguous = 0
    /\ progressreported = 0
    /\ sinceLastdata = 0
    /\ tempurls = TRUE
    /\ raid = TRUE
    /\ raidUnused = -1
    /\ raidbuf = NoRaidBuf
    /\ outbuf = [i \in {} |-> NoPiece]
    /\ client \in {c \in ClientConfigs : /\ ~c.orderdownloadedchunks
                                          /\ ~c.urlhttp /\ ~c.asyncavailable}
    /\ faults = 0
    /\ budget = MaxPartFaults
    /\ verified = FALSE
    /\ dtor = NoDtor
    /\ rd = NoRead /\ nodes = NoNodes /\ tfa = NoFileAccess /\ tp = NoToggle
    /\ cl = NoClient
    /\ ev = NoEvent

\* the steps of a RAID download whose parts fail: the ticks, the replies and
\* failures of the part requests, the worker, completion and deletion
NextRaidFail ==
    \/ Doio
    \/ HttpSuccessGet
    \/ RaidPartFails
    \/ WorkerDecrypt
    \/ Completed
    \/ Destroy

SpecRaidFail == InitRaidFail /\ [][NextRaidFail]_vars

\* a slot constructed for a download whose chunks are to be written in order
InitOrdered ==
    /\ SlotInit(Sizes, {c \in ClientConfigs : c.orderdownloadedchunks}, MaxFaults)
    /\ type = GET

\* the steps of a download
NextGet ==
    \/ Doio
    \/ TempUrlsArrive
    \/ HttpData
    \/ HttpSuccessGet
    \/ HttpShortGet
    \/ HttpFailure
    \/ WorkerDecrypt
    \/ AsyncIoComplete
    \/ TimePasses
    \/ Completed
    \/ Destroy

\* ordered downloads; the client's transfer loop calls doio for every slot on
\* each of its rounds, so a tick that stays possible is eventually taken
SpecOrdered == InitOrdered /\ [][NextGet]_vars /\ WF_vars(Doio)

(***************************************************************************)
(* The destructor's wait for the worker, step by step. The destructor runs *)
(* on the client's thread, so no tick and no HTTP event falls into it; the *)
(* worker thread runs beside it.                                           *)
(***************************************************************************)
\* the connections from k on whose piece is with the worker
Decrypting(k) ==
    {j \in DOMAIN reqs : j >= k /\ reqs[j].status = "REQ_DECRYPTING"}

\* the destructor's loop goes on to the next connection in REQ_DECRYPTING,
\* or to the flush
DtorGoOn(k) ==
    IF Decrypting(k) = {} THEN [i |-> connections, at |-> "flush"]
    ELSE [i |-> CHOOSE j \in Decrypting(k) : \A l \in Decrypting(k) : j <= l,
          at |-> "check"]

\* a step of the destructor or of the worker beside it
StepAt(s0, d) ==
    /\ \E s \in {s0} : Commit(s)
    /\ dtor' = d
    /\ UNCHANGED <<type, size, raid, budget, srv, finished, tempurls, rd, cl, tp, tfa, nodes>>

\* the slot of an unfinished download is deleted while the worker has a piece
DtorEnter ==
    /\ slot = "active" /\ type = GET /\ ~finished /\ progresscompleted # size
    /\ Decrypting(0) # {}
    /\ StepAt([Cur("dtorwait", IoFine) EXCEPT !.slot = "deleting"], DtorGoOn(0))

\* finalizedCV.wait(guard, pred) evaluates pred: when the piece is finalized
\* the request becomes REQ_DECRYPTED and the loop goes on
DtorCheck ==
    /\ slot = "deleting" /\ dtor.at = "check"
    /\ IF outbuf[dtor.i].finalized
       THEN \E s \in {[Cur("dtorwait", IoFine) EXCEPT
                            !.reqs[dtor.i].status = "REQ_DECRYPTED"]} :
                StepAt(s, DtorGoOn(dtor.i + 1))
       ELSE StepAt(Cur("dtorwait", IoFine), [dtor EXCEPT !.at = "wait"])

\* pred was false: the destructor's own mutex is released and the thread
\* blocks on finalizedCV
DtorBlock ==
    /\ slot = "deleting" /\ dtor.at = "wait"
    /\ StepAt(Cur("dtorwait", IoFine), [dtor EXCEPT !.at = "blocked"])

\* the rest of the destructor: the flush, the cache, transfer->slot = NULL
DtorLeave ==
    /\ slot = "deleting" /\ dtor.at = "flush"
    /\ \E inp \in DtorInputs : StepAt(destructor(Cur("dtor", inp)), NoDtor)

\* the worker's outputPiece->finalize(true, ...): the piece is finalized and
\* finalizedCV notified, which wakes the destructor if it is blocked on it
WorkerFinalize ==
    \E i \in 0..(connections - 1) :
        /\ slot \in {"active", "deleting"}
        /\ reqs[i].status = "REQ_DECRYPTING" /\ ~outbuf[i].finalized
        /\ StepAt([Cur("env", IoFine) EXCEPT !.outbuf[i].finalized = TRUE],
                  IF dtor.at = "blocked" /\ dtor.i = i
                  THEN [dtor EXCEPT !.at = "check"] ELSE dtor)

\* the worker's req->status = REQ_DECRYPTED
WorkerFinish ==
    \E i \in 0..(connections - 1) :
        /\ slot \in {"active", "deleting"}
        /\ reqs[i].status = "REQ_DECRYPTING" /\ outbuf[i].finalized
        /\ StepAt([Cur("env", IoFine) EXCEPT !.reqs[i].status = "REQ_DECRYPTED"],
                  dtor)

\* the steps of a download whose slot is deleted while the worker decrypts
NextDtorWait ==
    \/ Doio
    \/ TempUrlsArrive
    \/ HttpData
    \/ HttpSuccessGet
    \/ AsyncIoComplete
    \/ WorkerFinalize
    \/ WorkerFinish
    \/ DtorEnter
    \/ DtorCheck
    \/ DtorBlock
    \/ DtorLeave

InitDtorWait == SlotInit(Sizes, ClientConfigs, 0) /\ type = GET

SpecDtorWait == InitDtorWait /\ [][NextDtorWait]_vars

(***************************************************************************)
(* LocalNode::serialize and LocalNode::unserialize (node.cpp)              *)
(***************************************************************************)
\* the bytes of the fields that must be there: size, fsid, parent dbid,
\* handle, and the length of localname
HeaderLen == 8 + 8 + 4 + 6 + 2

\* the bytes of a number, lowest first and without leading zeros, and back
RECURSIVE LEBytes(_)
LEBytes(m) == IF m = 0 THEN <<>> ELSE <<m % 256>> \o LEBytes(m \div 256)

RECURSIVE LEValue(_)
LEValue(bs) == IF bs = <<>> THEN 0 ELSE Head(bs) + 256 * LEValue(Tail(bs))

\* the LocalNodes of the model: files and folders; a file's synced
\* fingerprint is valid, or only its scanned one is; the mtime takes up to
\* MaxMtimeLen bytes; the short name is absent, empty or up to MaxNameLen long
LocalNodes ==
    {[type |-> t,
      synced |-> IF t = 0 /\ v
                 THEN [isvalid |-> TRUE, size |-> 5, crc |-> [k \in 1..16 |-> 9],
                       mtime |-> LEValue([k \in 1..mt |-> 1])]
                 ELSE [isvalid |-> FALSE, size |-> -1, crc |-> [k \in 1..16 |-> 0],
                       mtime |-> 0],
      scanned |-> [isvalid |-> t = 0, size |-> 6],
      fsid |-> 3, dbid |-> 4, handle |-> 2,
      localname |-> [k \in 1..nm |-> 65],
      syncable |-> sy,
      slocalname |-> [present |-> sn >= 0, name |-> [k \in 1..sn |-> 66]]] :
        t \in {0, 1}, v \in BOOLEAN, mt \in 0..MaxMtimeLen,
        nm \in 0..MaxNameLen, sn \in (-1)..MaxNameLen, sy \in BOOLEAN}

\* the fields LocalNode::serialize writes for node n, each a byte sequence:
\* a folder's first field is -type, a file's its size
LocalNodeFields(n) ==
    LET Fixed(len, m) == [k \in 1..len |->
                             IF k <= Len(LEBytes(m)) THEN LEBytes(m)[k] ELSE 0]
        fp == IF n.synced.isvalid THEN n.synced
              ELSE [crc |-> [k \in 1..16 |-> 0], mtime |-> 0]
        sz0 == IF n.synced.isvalid THEN n.synced.size ELSE n.scanned.size
        sz == IF sz0 < 0 THEN 0 ELSE sz0
        sname == IF n.slocalname.present THEN n.slocalname.name ELSE <<>>
    IN <<IF n.type # 0 THEN [k \in 1..8 |-> 255] ELSE Fixed(8, sz),
         Fixed(8, n.fsid), Fixed(4, n.dbid), Fixed(6, n.handle),
         Fixed(2, Len(n.localname)) \o n.localname>>
       \o (IF n.type = 0
           THEN <<fp.crc, <<Len(LEBytes(fp.mtime))>> \o LEBytes(fp.mtime)>>
           ELSE <<>>)
       \o <<<<IF n.syncable THEN 1 ELSE 0>>, <<1>>,
            Fixed(2, Len(sname)) \o sname>>

\* the fields one after the other
RECURSIVE Concat(_)
Concat(fs) == IF fs = <<>> THEN <<>> ELSE Head(fs) \o Concat(Tail(fs))

\* CacheableReader: n bytes are read if they are there; pts notes where each
\* field read so far ends
Take(r0, n) ==
    Bind(r0, LAMBDA r :
        IF r.ok /\ r.ptr + n <= Len(r.d)
        THEN [r EXCEPT !.ptr = @ + n, !.pts = Append(@, r.ptr + n)]
        ELSE [r EXCEPT !.ok = FALSE])

\* unserializestring, unserializecstr: a 16-bit length and as many bytes
TakeString(r0) ==
    Bind(r0, LAMBDA r :
        IF r.ok /\ r.ptr + 2 <= Len(r.d)
        THEN Take([r EXCEPT !.ptr = @ + 2], r.d[r.ptr + 1] + 256 * r.d[r.ptr + 2])
        ELSE [r EXCEPT !.ok = FALSE])

\* unserializecompressed64: a count of at most 8, and as many bytes
TakeCompressed64(r0) ==
    Bind(r0, LAMBDA r :
        IF r.ok /\ r.ptr + 1 <= Len(r.d) /\ r.d[r.ptr + 1] <= 8
        THEN Take([r EXCEPT !.ptr = @ + 1], r.d[r.ptr + 1])
        ELSE [r EXCEPT !.ok = FALSE])

\* r.hasdataleft() && r.unserialize...: a field of n bytes that is read only
\* when bytes are left
TakeIfLeft(r0, n) ==
    Bind(r0, LAMBDA r : IF r.ok /\ r.ptr < Len(r.d) THEN Take(r, n) ELSE r)

\* the reads of LocalNode::unserialize, one after the other; a file has seven
\* fields before the syncable flag, a folder five
ReadFields(d) ==
    Bind(TakeString(Take(Take(Take(Take(
            [d |-> d, ptr |-> 0, ok |-> TRUE, pts |-> <<>>, base |-> 0],
            8), 8), 4), 6)),
         LAMBDA r2 :
    Bind(IF \A k \in 1..8 : d[k] = 255 THEN [r2 EXCEPT !.base = 5]
         ELSE [TakeCompressed64(Take(r2, 16)) EXCEPT !.base = 7],
         LAMBDA r3 :
    Bind(TakeIfLeft(TakeIfLeft(r3, 1), 1), LAMBDA r5 :
        IF r5.ok /\ Len(r5.pts) = r5.base + 2 /\ d[r5.ptr] # 0
        THEN TakeString(r5) ELSE r5)))

\* the reads of LocalNode::unserialize and the node it builds from them: ok
\* when no read failed, left when bytes remain, node the fields of the new
\* LocalNode (the numbers of the model are below 65536, so that the low
\* bytes of a field hold its value)
ReadLocalNode(d) ==
    Bind(ReadFields(d), LAMBDA r :
        LET Field(k) == IF r.ok /\ k <= Len(r.pts)
                        THEN SubSeq(d, (IF k = 1 THEN 0 ELSE r.pts[k - 1]) + 1,
                                    r.pts[k])
                        ELSE <<>>
            Low(k) == IF Field(k) = <<>> THEN 0 ELSE LEValue(SubSeq(Field(k), 1, 2))
            String(k) == IF Field(k) = <<>> THEN <<>> ELSE Tail(Tail(Field(k)))
            file == r.base = 7
            mtime == IF file /\ Field(7) # <<>> THEN LEValue(Tail(Field(7))) ELSE 0
        IN [ok |-> r.ok,
            left |-> r.ok /\ r.ptr < Len(d),
            node |-> [type |-> IF file THEN 0 ELSE 1,
                      size |-> IF file THEN Low(1) ELSE 0,
                      fsid |-> Low(2), dbid |-> Low(3), handle |-> Low(4),
                      localname |-> String(5),
                      crc |-> IF file /\ Field(6) # <<>> THEN Field(6)
                              ELSE [k \in 1..16 |-> 0],
                      mtime |-> mtime,
                      isvalid |-> mtime # 0,
                      syncable |-> IF Field(r.base + 1) # <<>>
                                   THEN Field(r.base + 1) = <<1>> ELSE TRUE,
                      slocalname |-> [present |-> String(r.base + 3) # <<>>,
                                      name |-> String(r.base + 3)]]])

\* LocalNode::unserialize(sync, d): "object" when a LocalNode is returned,
\* "null" when none is, "abort" when an assert fails (a build without NDEBUG)
unserialize(d, ndebug) ==
    IF Len(d) < HeaderLen THEN "null"
    ELSE Bind(ReadLocalNode(d), LAMBDA p :
            IF ~p.ok THEN (IF ndebug THEN "null" ELSE "abort")
            ELSE IF p.left /\ ~ndebug THEN "abort"
            ELSE "object")

\* what the reader may be given: node n as stored, whole, cut short after any
\* number of its bytes, or followed by more bytes; built with or without NDEBUG
ReadInputs(n) ==
           Bind(LocalNodeFields(n), LAMBDA fs :
           Bind([whole |-> Concat(fs),
                 ends |-> {Len(Concat(SubSeq(fs, 1, k))) : k \in 0..Len(fs)}],
                LAMBDA w :
              {[d |-> SubSeq(w.whole, 1, cut) \o [k \in 1..extra |-> 7],
                ndebug |-> b, node |-> n, out |-> <<>>,
                ends |-> w.ends,
                whole |-> Len(w.whole), extra |-> extra, result |-> "none"] :
                  cut \in 0..Len(w.whole), extra \in 0..MaxExtra, b \in BOOLEAN}))

\* the variables of the transfer and its slot
xfer == <<type, size, pos, progresscompleted, chunkmacs, metamac,
          currentmetamac, ultoken, finished, slot, fa, connections,
          reqs, asyncIO, errorcount, lasterror, failure, retrying,
          retrybt, progresscontiguous, progressreported, sinceLastdata,
          tempurls, raid, raidUnused, raidbuf, outbuf, client, written,
          srv, faults, budget, verified, dtor, ev>>

\* no transfer is looked at
NoTransfer ==
    /\ type = GET /\ size = 0 /\ pos = 0 /\ progresscompleted = 0
    /\ chunkmacs = EmptyMacs /\ metamac = <<>> /\ currentmetamac = <<>>
    /\ ultoken = FALSE /\ finished = FALSE /\ slot = "gone" /\ fa = FALSE
    /\ connections = 0
    /\ reqs = [i \in {} |-> NoReq]
    /\ asyncIO = [i \in {} |-> NoAsync]
    /\ errorcount = 0 /\ lasterror = "API_OK" /\ failure = FALSE
    /\ retrying = FALSE /\ retrybt = 0 /\ progresscontiguous = 0
    /\ progressreported = 0 /\ sinceLastdata = 0 /\ tempurls = FALSE
    /\ raid = FALSE /\ raidUnused = -1 /\ raidbuf = NoRaidBuf
    /\ outbuf = [i \in {} |-> NoPiece]
    /\ client \in {c \in ClientConfigs : \A f \in DOMAIN c : c[f] = FALSE}
    /\ written = [c \in {} |-> 0] /\ srv = {} /\ faults = 0 /\ budget = 0
    /\ verified = FALSE /\ dtor = NoDtor /\ ev = NoEvent

\* a stored node is about to be read; no transfer runs beside the reader
InitRead ==
    /\ \E n \in LocalNodes : rd \in ReadInputs(n)
    /\ rd.extra > 0 => Len(rd.d) = rd.whole + rd.extra
    /\ cl = NoClient /\ nodes = NoNodes /\ tfa = NoFileAccess /\ tp = NoToggle
    /\ NoTransfer

\* the stored node is read
Unserialize ==
    /\ rd.result = "none"
    /\ \E res \in {unserialize(rd.d, rd.ndebug)} :
          rd' = [rd EXCEPT !.result = res,
                           !.out = IF res = "object"
                                   THEN ReadLocalNode(rd.d).node ELSE <<>>]
    /\ UNCHANGED <<xfer, cl, tp, tfa, nodes>>

SpecRead == InitRead /\ [][Unserialize]_vars

(***************************************************************************)
(* The client's slot table: TransferSlot's constructor and destructor, and *)
(* the client's list tslots with its main-loop iterator slotit. A list     *)
(* iterator is written as the slot it points at, 0 for tslots.end()        *)
(***************************************************************************)
Transfers == 1..NTransfers

\* ++ on an iterator that points at slot s
IterNext(ts, s) ==
    LET k == CHOOSE j \in 1..Len(ts) : ts[j] = s
    IN IF k < Len(ts) THEN ts[k + 1] ELSE 0

\* tslots.erase(slots_it)
Erase(ts, s) == SelectSeq(ts, LAMBDA x : x # s)

\* a faulty variant: the main loop's iterator is left where it is
DeleteEffect_NoAdvance(c, s) ==
    [c EXCEPT !.slot[c.objs[s].transfer] = 0,
              !.tslots = IF c.objs[s].listed THEN Erase(@, s) ELSE @,
              !.objs = [x \in (DOMAIN @) \ {s} |-> @[x]],
              !.last = [op |-> "delete", advanced |-> FALSE]]

\* ~TransferSlot, lines 270-282: transfer->slot = NULL; when the slot is in
\* tslots, slotit is advanced if it points at this slot, and the slot erased
DeleteEffect(c, s) ==
    LET adv == c.objs[s].listed /\ c.slotit # 0 /\ c.slotit = s
    IN [c EXCEPT !.slot[c.objs[s].transfer] = 0,
                 !.slotit = IF adv THEN IterNext(c.tslots, s) ELSE @,
                 !.tslots = IF c.objs[s].listed THEN Erase(@, s) ELSE @,
                 !.objs = [x \in (DOMAIN @) \ {s} |-> @[x]],
                 !.last = [op |-> "delete", advanced |-> adv]]

\* the client starts a transfer that has no slot: TransferSlot::TransferSlot
NewSlot ==
    \E x \in Transfers :
        /\ cl.slot[x] = 0 /\ cl.made < MaxSlotObjects
        /\ cl' = [cl EXCEPT !.made = @ + 1,
                            !.objs = [s \in (DOMAIN @) \cup {cl.made + 1} |->
                                        IF s = cl.made + 1
                                        THEN [transfer |-> x, listed |-> FALSE]
                                        ELSE @[s]],
                            !.slot[x] = cl.made + 1,
                            !.state[x] = "ACTIVE",
                            !.last = [op |-> "new", advanced |-> FALSE]]
        /\ UNCHANGED <<xfer, rd, tp, tfa, nodes>>

\* the client puts the new slot into its list: slots_it = tslots.insert(...)
InsertSlot ==
    \E s \in DOMAIN cl.objs :
        /\ ~cl.objs[s].listed
        /\ cl' = [cl EXCEPT !.tslots = <<s>> \o @,
                            !.objs[s].listed = TRUE,
                            !.last = [op |-> "insert", advanced |-> FALSE]]
        /\ UNCHANGED <<xfer, rd, tp, tfa, nodes>>

\* the client's main loop starts a round: slotit = tslots.begin()
LoopBegin ==
    /\ cl' = [cl EXCEPT !.slotit = IF cl.tslots = <<>> THEN 0 ELSE cl.tslots[1],
                        !.last = [op |-> "begin", advanced |-> FALSE]]
    /\ cl'.slotit # cl.slotit
    /\ UNCHANGED <<xfer, rd, tp, tfa, nodes>>

\* the main loop takes the slot at slotit and moves on: it = slotit++
LoopAdvance ==
    /\ cl.slotit # 0
    /\ cl' = [cl EXCEPT !.slotit = IterNext(cl.tslots, cl.slotit),
                        !.last = [op |-> "advance", advanced |-> FALSE]]
    /\ UNCHANGED <<xfer, rd, tp, tfa, nodes>>

\* a slot is deleted: TransferSlot::~TransferSlot
DeleteSlot ==
    \E s \in DOMAIN cl.objs :
        /\ cl' = DeleteEffect(cl, s)
        /\ UNCHANGED <<xfer, rd, tp, tfa, nodes>>

InitSlots ==
    /\ cl = [NoClient EXCEPT !.slot = [x \in Transfers |-> 0],
                             !.state = [x \in Transfers |-> "QUEUED"]]
    /\ rd = NoRead /\ nodes = NoNodes /\ tfa = NoFileAccess /\ tp = NoToggle
    /\ NoTransfer

NextSlots == NewSlot \/ InsertSlot \/ LoopBegin \/ LoopAdvance \/ DeleteSlot

SpecSlots == InitSlots /\ [][NextSlots]_vars

\* the sizes of the transfers whose errors are counted
ErrSizes == {SEGSIZE - 1}

\* a slot whose requests may fail often enough to exhaust the error count
InitErr == SlotInit(ErrSizes, ClientConfigs, MaxErrFaults)

\* the slots of single-connection transfers under repeated faults
SpecErr == InitErr /\ [][Next]_vars

\* a download of two chunks on two connections whose requests may fail twice
InitReqFail ==
    /\ SlotInit({ChunkStart(MaxChunks)},
                {c \in ClientConfigs : ~c.orderdownloadedchunks /\ ~c.asyncavailable},
                MaxReqFaults)
    /\ type = GET
    /\ metamac = macsmac_of(FullMacs(size))

\* downloads whose requests fail, RAID and not
NextFail ==
    \/ Doio
    \/ HttpSuccessGet
    \/ WorkerDecrypt
    \/ Completed
    \/ Destroy
    \/ raid /\ RaidPartFails
    \/ ~raid /\ TempUrlsArrive
    \/ ~raid /\ HttpFailure
    \/ ~raid /\ TimePasses

SpecFail == (InitRaidFail \/ InitReqFail) /\ [][NextFail]_vars

(***************************************************************************)
(* The progress of a RAID download whose parts arrive piecemeal            *)
(***************************************************************************)
\* the first bytes of a RAID part's body have been transferred
HttpPartData ==
    \E i \in 0..(connections - 1) :
        /\ slot = "active" /\ raid
        /\ reqs[i].status = "REQ_INFLIGHT"
        /\ reqs[i].bufpos = 0
        /\ reqs[i].size > RaidPartialLen
        /\ Step([Cur("env", IoFine) EXCEPT !.reqs[i].bufpos = RaidPartialLen,
                                            !.reqs[i].sinceData = 0])
        /\ UNCHANGED <<srv, finished, tempurls>>

\* a RAID download of one chunk with its temporary URLs
InitProgress == InitRaid /\ tempurls /\ size = SEGSIZE

NextProgress ==
    \/ Doio
    \/ HttpPartData
    \/ HttpSuccessGet
    \/ WorkerDecrypt
    \/ AsyncIoComplete
    \/ Completed
    \/ Destroy

SpecProgress == InitProgress /\ [][NextProgress]_vars

(***************************************************************************)
(* The READY block: uploads, downloads, and a RAID download whose          *)
(* reassembled data is handed out in two pieces                            *)
(***************************************************************************)
\* the size of a RAID download of two chunks, the second a short one
RaidPiecesSize == 2 * SEGSIZE

\* a slot constructed for a RAID download of two chunks
InitPieces ==
    /\ type = GET
    /\ size = RaidPiecesSize
    /\ pos = 0
    /\ progresscompleted = 0
    /\ chunkmacs = EmptyMacs
    /\ ultoken = FALSE
    /\ written = [c \in ChunkStarts(size) |-> 0]
    /\ srv = {}
    /\ metamac = macsmac_of(FullMacs(size))
    /\ currentmetamac = <<>>
    /\ finished = FALSE
    /\ slot = "active"
    /\ fa = TRUE
    /\ connections = 0
    /\ reqs = [i \in {} |-> NoReq]
    /\ asyncIO = [i \in {} |-> NoAsync]
    /\ errorcount = 0
    /\ lasterror = "API_OK"
    /\ failure = FALSE
    /\ retrying = FALSE
    /\ retrybt = 0
    /\ progresscontiguous = 0
    /\ progressreported = 0
    /\ sinceLastdata = 0
    /\ tempurls = TRUE
    /\ raid = TRUE
    /\ raidUnused = -1
    /\ raidbuf = NoRaidBuf
    /\ outbuf = [i \in {} |-> NoPiece]
    /\ client \in {c \in ClientConfigs :
                     /\ ~c.orderdownloadedchunks /\ ~c.urlhttp
                     /\ ~c.usehttps /\ ~c.usealtport /\ ~c.autoport}
    /\ faults = 0
    /\ budget = 0
    /\ verified = FALSE
    /\ dtor = NoDtor
    /\ rd = NoRead /\ nodes = NoNodes /\ tfa = NoFileAccess /\ tp = NoToggle
    /\ cl = NoClient
    /\ ev = NoEvent

\* the slots of Init whose client writes chunks as they come and has https:
\* temporary URLs
InitReady == Init /\ ~client.orderdownloadedchunks /\ ~client.urlhttp

SpecReady == (InitReady \/ InitPieces) /\ [][Next]_vars

(***************************************************************************)
(* The check of a metamac for missing late entries, on its own             *)
(***************************************************************************)
\* the offset at which chunk number k starts, in closed form: the chunks are
\* of 1, 2, ..., 8 segments, and of 8 from then on
NthChunkStart(k) ==
    IF k <= 8 THEN SEGSIZE * ((k * (k + 1)) \div 2)
    ELSE SEGSIZE * (36 + 8 * (k - 8))

\* the chunk MACs of a file of n whole chunks
WholeMacs(n) ==
    LET at == [k \in 0..(n - 1) |-> NthChunkStart(k)]
    IN [c \in {at[k] : k \in 0..(n - 1)} |->
          [offset |-> NthChunkStart((CHOOSE k \in 0..(n - 1) : at[k] = c) + 1) - c,
           finished |-> TRUE]]

\* the numbers of chunks of the downloads checked
GapCounts ==
    (0..SmallGapChunks) \cup {TwoGapWindow + GapMargin, SingleGapWindow + GapMargin}

\* the gaps [g1,g2) and [g3,g4) a metamac of n chunk MACs is computed with:
\* every pair for a small n; for a large n gaps at the far edge of each
\* window and just outside it, of the greatest length and one more
GapInputs(n) ==
    IF n <= SmallGapChunks
    THEN {g \in (0..n) \X (0..n) \X (0..n) \X (0..n) :
             g[1] <= g[2] /\ g[2] <= g[3] /\ g[3] <= g[4]}
    ELSE {<<n - w, n - w + l, n, n>> :
             w \in {2, SingleGapWindow, SingleGapWindow + 1} \cap (1..n),
             l \in {1}}
         \cup {<<n - SingleGapMaxLen - 1, n - SingleGapMaxLen - 1 + l, n, n>> :
                  l \in {SingleGapMaxLen, SingleGapMaxLen + 1}}
         \cup {<<n - w, n - w + l, n - 2, n - 2 + k>> :
                  w \in {TwoGapWindow, TwoGapWindow + 1} \cap (1..n),
                  l \in {1}, k \in {1}}
         \cup {<<n - TwoGapWindow, n - TwoGapWindow + l, n - k, n>> :
                  l \in {TwoGapMaxLen, TwoGapMaxLen + 1},
                  k \in {TwoGapMaxLen, TwoGapMaxLen + 1}}

\* a download of n whole chunks, all written, whose metamac was computed with
\* gaps, or is simply wrong
InitGaps ==
    \E n \in GapCounts :
        /\ chunkmacs = WholeMacs(n)
        /\ metamac \in {BadMac} \cup
              {macsmac_gaps_of(WholeMacs(n), g[1], g[2], g[3], g[4]) :
                  g \in GapInputs(n)}
        /\ type = GET
        /\ size = NthChunkStart(n)
        /\ pos = size /\ progresscompleted = size
        /\ currentmetamac = <<>>
        /\ ultoken = FALSE /\ finished = FALSE /\ slot = "active" /\ fa = TRUE
        /\ connections = 0
        /\ reqs = [i \in {} |-> NoReq]
        /\ asyncIO = [i \in {} |-> NoAsync]
        /\ errorcount = 0 /\ lasterror = "API_OK" /\ failure = FALSE
        /\ retrying = FALSE /\ retrybt = 0 /\ progresscontiguous = size
        /\ progressreported = size /\ sinceLastdata = 0 /\ tempurls = TRUE
        /\ raid = FALSE /\ raidUnused = -1 /\ raidbuf = NoRaidBuf
        /\ outbuf = [i \in {} |-> NoPiece]
        /\ client \in {c \in ClientConfigs : \A f \in DOMAIN c : c[f] = FALSE}
        /\ written = [c \in DOMAIN chunkmacs |-> chunkmacs[c].offset]
        /\ srv = {} /\ faults = 0 /\ budget = 0
        /\ verified = FALSE /\ dtor = NoDtor /\ rd = NoRead /\ nodes = NoNodes /\ tfa = NoFileAccess /\ tp = NoToggle /\ cl = NoClient
        /\ ev = NoEvent

\* the metamac is found wrong and checked for missing late entries
CheckLateEntries ==
    /\ ev.op = "none"
    /\ Step(checkMetaMacWithMissingLateEntries(Cur("check", IoFine)))
    /\ UNCHANGED <<srv, finished, tempurls>>

SpecGaps == InitGaps /\ [][CheckLateEntries]_vars

(***************************************************************************)
(* TransferSlot::toggleport on the text of a URL. A string is a sequence   *)
(* of characters, indexed from 0 as in the code                            *)
(***************************************************************************)
\* string::npos, larger than the length of any string
npos == 2147483647

\* the most calls of toggleport on one URL
MaxToggles == 2

\* string::find(c, from): the first index at or after from that holds c
find(u, c, from) ==
    IF \E k \in from..(Len(u) - 1) : u[k + 1] = c
    THEN CHOOSE k \in from..(Len(u) - 1) :
            /\ u[k + 1] = c
            /\ \A j \in from..(k - 1) : u[j + 1] # c
    ELSE npos

\* string::insert(at, t)
insert(u, at, t) == SubSeq(u, 1, at) \o t \o SubSeq(u, at + 1, Len(u))

\* a - b on size_t: a difference below zero wraps to a count larger than the
\* length of any string
SizeDiff(a, b) == IF a >= b THEN a - b ELSE npos

\* string::erase(at, count): count is cut to the characters there are
erase(u, at, count) ==
    SubSeq(u, 1, at) \o SubSeq(u, at + Min(count, Len(u) - at) + 1, Len(u))

\* memcmp(posturl.c_str(), "http:", 5) == 0
IsHttp(u) == Len(u) >= 5 /\ SubSeq(u, 1, 5) = <<"h", "t", "t", "p", ":">>

\* TransferSlot::toggleport on the URL u
toggleportUrl(u) ==
    IF IsHttp(u)
    THEN Bind(find(u, "/", 8), LAMBDA portendindex :
         Bind(find(u, ":", 8), LAMBDA portstartindex :
            IF portendindex # npos
            THEN IF portstartindex = npos
                 THEN insert(u, portendindex, <<":", "8", "0", "8", "0">>)
                 ELSE erase(u, portstartindex,
                            SizeDiff(portendindex, portstartindex))
            ELSE u))
    ELSE u

\* the URLs looked at: a scheme, a host, a port or none, a path or none
Schemes == {<<"h", "t", "t", "p", ":", "/", "/">>,
            <<"h", "t", "t", "p", "s", ":", "/", "/">>}
Hosts == {<<"g">>, <<"g", "f", "s">>}
Ports == {<<>>, <<":", "8", "0">>, <<":", "8", "0", "8", "0">>}
Paths == {<<>>, <<"/">>, <<"/", "d", "l">>, <<"/", "d", "/", "x">>,
          <<"/", "d", ":", "x">>}

UrlOf(q) == q.scheme \o q.host \o q.port \o q.path

InitToggle ==
    /\ \E sc \in Schemes : \E h \in Hosts : \E po \in Ports : \E pa \in Paths :
          \E q \in {[scheme |-> sc, host |-> h, port |-> po, path |-> pa]} :
             tp = [posturl |-> UrlOf(q), parts |-> q, before |-> <<>>]
    /\ rd = NoRead /\ nodes = NoNodes /\ tfa = NoFileAccess /\ cl = NoClient
    /\ NoTransfer

\* toggleport is called on the request
TogglePort ==
    /\ tp.parts # <<>>
    /\ Len(tp.before) < MaxToggles
    /\ tp' = [tp EXCEPT !.posturl = toggleportUrl(@),
                        !.before = Append(@, tp.posturl)]
    /\ UNCHANGED <<xfer, rd, cl, tfa, nodes>>

SpecToggle == InitToggle /\ [][TogglePort]_vars

(***************************************************************************)
(* TransferSlotFileAccess: the holder of the slot's file access, which     *)
(* switches the transfer's timer bt                                        *)
(***************************************************************************)
\* the most calls of reset on one object
MaxResets == 5

\* TransferSlotFileAccess::reset(p), p: a file access is passed. The move
\* assignment fa = std::move(p) leaves p empty, and p is tested after it
reset(f, p) ==
    Bind(FALSE, LAMBDA pAfterMove :
        [f EXCEPT !.fa = p, !.bt = pAfterMove,
                  !.calls = Append(@, IF p THEN "reset(p)" ELSE "reset()")])

\* a transfer whose timer is enabled or not, and no TransferSlotFileAccess
InitFileAccess ==
    /\ tfa \in {[NoFileAccess EXCEPT !.bt = b] : b \in BOOLEAN}
    /\ rd = NoRead /\ nodes = NoNodes /\ cl = NoClient /\ tp = NoToggle
    /\ NoTransfer

\* TransferSlotFileAccess::TransferSlotFileAccess(p, t)
NewFileAccess ==
    /\ tfa.obj = "none"
    /\ \E p \in BOOLEAN : tfa' = reset([tfa EXCEPT !.obj = "live"], p)
    /\ UNCHANGED <<xfer, rd, cl, tp, nodes>>

\* reset(p) on the object; reset() is reset(nullptr)
ResetFileAccess ==
    /\ tfa.obj = "live"
    /\ Len(tfa.calls) < MaxResets
    /\ \E p \in BOOLEAN : tfa' = reset(tfa, p)
    /\ UNCHANGED <<xfer, rd, cl, tp, nodes>>

\* TransferSlotFileAccess::~TransferSlotFileAccess
DeleteFileAccess ==
    /\ tfa.obj = "live"
    /\ tfa' = [reset(tfa, FALSE) EXCEPT !.obj = "gone"]
    /\ UNCHANGED <<xfer, rd, cl, tp, nodes>>

NextFileAccess == NewFileAccess \/ ResetFileAccess \/ DeleteFileAccess

SpecFileAccess == InitFileAccess /\ [][NextFileAccess]_vars

(***************************************************************************)
(* TransferSlot::updatecontiguousprogress on chunkmacs maps of every kind  *)
(***************************************************************************)
\* the chunk boundaries of a file: its chunk starts and its end
Boundaries(sz) == ChunkStarts(sz) \cup {sz}

\* the chunkmacs maps with an entry, finished or not, at some of the
\* boundaries of a file
MacMaps(sz) ==
    UNION {[K -> {[offset |-> 0, finished |-> FALSE],
                  [offset |-> 1, finished |-> TRUE]}] :
              K \in SUBSET Boundaries(sz)}

\* a slot whose chunkmacs and progresscontiguous are any of these
InitContig ==
    /\ type \in {GET, PUT}
    /\ size \in Sizes
    /\ chunkmacs \in MacMaps(size)
    /\ progresscontiguous \in Boundaries(size)
    /\ pos = size /\ progresscompleted = 0
    /\ metamac = <<>> /\ currentmetamac = <<>>
    /\ ultoken = FALSE /\ finished = FALSE /\ slot = "active" /\ fa = TRUE
    /\ connections = 0
    /\ reqs = [i \in {} |-> NoReq]
    /\ asyncIO = [i \in {} |-> NoAsync]
    /\ errorcount = 0 /\ lasterror = "API_OK" /\ failure = FALSE
    /\ retrying = FALSE /\ retrybt = 0
    /\ progressreported = 0 /\ sinceLastdata = 0 /\ tempurls = TRUE
    /\ raid = FALSE /\ raidUnused = -1 /\ raidbuf = NoRaidBuf
    /\ outbuf = [i \in {} |-> NoPiece]
    /\ client \in {c \in ClientConfigs : \A f \in DOMAIN c : c[f] = FALSE}
    /\ written = [c \in ChunkStarts(size) |-> 0]
    /\ srv = {} /\ faults = 0 /\ budget = 0
    /\ verified = FALSE /\ dtor = NoDtor /\ rd = NoRead /\ nodes = NoNodes /\ cl = NoClient
    /\ tfa = NoFileAccess /\ tp = NoToggle
    /\ ev = NoEvent

\* updatecontiguousprogress is called
UpdateContiguous ==
    /\ ev.op = "none"
    /\ Step(updatecontiguousprogress(Cur("contig", IoFine)))
    /\ UNCHANGED <<srv, finished, tempurls>>

SpecContig == InitContig /\ [][UpdateContiguous]_vars

(***************************************************************************)
(* Node::setparent and the per-root node counters (node.cpp). A node is a  *)
(* number, 0 the null pointer                                              *)
(***************************************************************************)
\* setparent calls per run
MaxMoves == 2

\* client->rootnodes: the cloud drive, the inbox, the rubbish bin
RootNodes == {1, 2, 3}
\* the root of an inshare, a folder with inshare set
InShares == {4}
\* the nodes that are moved: a folder and two files
FolderNodes == {5}
FileNodes == {6, 7}
NodeIds == RootNodes \cup InShares \cup FolderNodes \cup FileNodes

NodeType(n) ==
    IF n \in FileNodes THEN "FILENODE"
    ELSE IF n \in FolderNodes \cup InShares THEN "FOLDERNODE"
    ELSE "ROOTNODE"

\* Node::size of a file
NodeSize(n) == n - 5

NoCount == [files |-> 0, folders |-> 0, storage |-> 0, versions |-> 0,
            versionStorage |-> 0]

\* NodeCounter::operator+= and operator-=
CounterAdd(a, b) == [f \in DOMAIN a |-> a[f] + b[f]]
CounterSub(a, b) == [f \in DOMAIN a |-> a[f] - b[f]]

RECURSIVE firstancestor(_, _)
\* Node::firstancestor
firstancestor(par, n) == IF par[n] = 0 THEN n ELSE firstancestor(par, par[n])

RECURSIVE subnodeCounts(_, _)
RECURSIVE ChildrenCounts(_, _)
\* the sum of subnodeCounts over the nodes of S
ChildrenCounts(par, S) ==
    IF S = {} THEN NoCount
    ELSE Bind(CHOOSE c \in S : TRUE, LAMBDA c :
            CounterAdd(subnodeCounts(par, c), ChildrenCounts(par, S \ {c})))

\* Node::subnodeCounts
subnodeCounts(par, n) ==
    Bind(ChildrenCounts(par, {c \in DOMAIN par : par[c] = n}), LAMBDA nc :
        IF NodeType(n) = "FILENODE"
        THEN Bind(par[n] # 0 /\ NodeType(par[n]) = "FILENODE", LAMBDA version :
                [nc EXCEPT !.files = @ + 1, !.storage = @ + NodeSize(n),
                           !.versions = IF version THEN @ + 1 ELSE @,
                           !.versionStorage =
                               IF version THEN @ + NodeSize(n) ELSE @])
        ELSE IF NodeType(n) = "FOLDERNODE"
        THEN [nc EXCEPT !.folders = @ + 1]
        ELSE nc)

\* the ancestors with a counter: a root node or the root of an inshare
Counted(n) == n \in RootNodes \/ n \in InShares

\* Node::setparent(p) on node n
setparent(t, n, p) ==
    IF p = t.parent[n]
    THEN [t EXCEPT !.last = [node |-> n, p |-> p, moved |-> FALSE]]
    ELSE Bind(firstancestor(t.parent, n), LAMBDA oah :
         Bind(Counted(oah), LAMBDA gotnc :
         Bind(IF gotnc THEN subnodeCounts(t.parent, n) ELSE NoCount, LAMBDA nc :
         Bind([t EXCEPT !.counters =
                           IF gotnc
                           THEN [@ EXCEPT ![oah] = CounterSub(@, nc)] ELSE @,
                        !.parent[n] = p], LAMBDA t1 :
         Bind(firstancestor(t1.parent, n), LAMBDA nah :
            [t1 EXCEPT !.counters =
                          IF Counted(nah)
                          THEN [@ EXCEPT ![nah] =
                                   CounterAdd(@, IF gotnc THEN nc
                                                 ELSE subnodeCounts(t1.parent, n))]
                          ELSE @,
                       !.last = [node |-> n, p |-> p, moved |-> TRUE]])))))

RECURSIVE Below(_, _, _)
\* n is p or below p
Below(par, n, p) ==
    n = p \/ (par[n] # 0 /\ Below(par, par[n], p))

\* the trees: the roots and the inshare have no parent; a folder is in a
\* folder or a root or detached, a file also in a file (as its version);
\* no node is below itself
Trees ==
    {par \in [NodeIds -> {0} \cup NodeIds] :
        /\ \A n \in RootNodes \cup InShares : par[n] = 0
        /\ \A n \in FolderNodes : par[n] \notin FileNodes \cup {n}
        /\ \A n \in FileNodes : par[n] # n
        /\ ~(par[6] = 7 /\ par[7] = 6)}

\* the counters as the tree has them
TreeCounters(par) ==
    [r \in RootNodes \cup InShares |-> subnodeCounts(par, r)]

\* any tree, its counters right
InitNodes ==
    /\ \E par \in Trees :
          nodes = [NoNodes EXCEPT !.parent = par,
                                  !.counters = TreeCounters(par)]
    /\ rd = NoRead /\ cl = NoClient /\ tp = NoToggle /\ tfa = NoFileAccess
    /\ NoTransfer

\* n->setparent(p): a moved node is not put below itself, and only a file
\* below a file
SetParent ==
    /\ nodes.moves < MaxMoves
    /\ \E n \in FolderNodes \cup FileNodes : \E p \in {0} \cup NodeIds :
          /\ p # 0 => ~Below(nodes.parent, p, n)
          /\ (p \in FileNodes) => n \in FileNodes
          /\ nodes' = [setparent(nodes, n, p) EXCEPT !.moves = @ + 1]
    /\ UNCHANGED <<xfer, rd, cl, tp, tfa>>

SpecNodes == InitNodes /\ [][SetParent]_vars

(***************************************************************************)
(* Properties                                                              *)
(***************************************************************************)
\* the length of the chunk that starts at c
ChunkLen(c) == chunkceil(c, size) - c

\* the bytes of the chunks the map holds as finished
FinishedBytes(m) ==
    LET F[S \in SUBSET AllChunkStarts] ==
            IF S = {} THEN 0
            ELSE LET c == CHOOSE x \in S : TRUE
                 IN ChunkLen(c) + F[S \ {c}]
    IN F[{c \in DOMAIN m : m[c].finished}]

\* C1: a download of size > 0 is handed to transfer->complete only with
\* progresscompleted = size and with the mac-of-macs of its chunkmacs computed
\* and found equal to metamac, directly or through the legacy gap recovery
C1_CompleteOnlyVerified ==
    (type = GET /\ size > 0 /\ ev.complete) =>
        /\ progresscompleted = size
        /\ verified
        /\ currentmetamac = macsmac_of(chunkmacs)
        /\ currentmetamac = metamac

\* C1 happens: the verification after the last chunk's write completes a download
\* whose metamac needed the gap recovery
C1_Witness ==
    /\ type = GET /\ size > 0
    /\ ev.op = "doio" /\ ev.complete /\ ev.recovery = "true"
    /\ ev.wrote # <<>>

\* C2: a download whose mac-of-macs differs from metamac is failed with EKEY
\* only after checkMetaMacWithMissingLateEntries was attempted
C2_RecoveryBeforeEKEY ==
    (type = GET /\ ev.op = "doio" /\ ev.failed = "API_EKEY") =>
        ev.recovery # "none"

\* C3: 0 <= progresscompleted <= pos <= size at all times
C3_ProgressWithinPos ==
    /\ 0 <= progresscompleted
    /\ progresscompleted <= pos
    /\ pos <= size

\* C3 happens: the token path has added the sizes of other connections
C3_Witness ==
    /\ type = PUT /\ ev.op = "doio" /\ ev.token /\ ev.tokenOthers # {}
    /\ progresscompleted = size

\* C4: progresscompleted never decreases
C4_ProgressMonotone == [][progresscompleted' >= progresscompleted]_vars

\* C4 happens: the destructor's flush has written a piece and advanced
C4_Witness ==
    /\ ev.op = "dtor" /\ ev.cached /\ ev.flushed # {}
    /\ progresscompleted > 0

C6_FinishedCovered ==
    \A c \in DOMAIN chunkmacs :
        chunkmacs[c].finished =>
            IF type = GET THEN written[c] = ChunkLen(c) ELSE c \in srv

\* C6 happens: the destructor's flush finalized a piece whose write failed
C6_Witness ==
    /\ type = GET /\ ev.op = "dtor"
    /\ ev.flushed # {} /\ ~ev.cached
    /\ progresscompleted < size

\* C7: when the upload token is accepted, the mac-of-macs for the file key
\* is computed over the chunk MACs of every chunk of the file
C7_TokenCoversAllChunks ==
    ev.token => ev.tokenMacs = macsmac_of(FullMacs(size))

\* C8: an upload is handed to transfer->complete only with ultoken set; an
\* upload whose bytes are all acknowledged without a token fails with
\* EINTERNAL
C8_CompleteOnlyWithToken ==
    type = PUT =>
        /\ ev.complete => ultoken
        /\ (ev.op = "doio" /\ size > 0 /\ progresscompleted = size /\ ~ultoken)
              => (ev.failed = "API_EINTERNAL" /\ ~ev.complete)

\* C8 happens: the last chunk was acknowledged with an empty body
C8_Witness ==
    /\ type = PUT /\ ev.op = "doio" /\ ev.acked # {}
    /\ progresscompleted = size /\ ~ultoken
    /\ ev.failed = "API_EINTERNAL"

\* C9: an upload response body that is not empty and not an upload token
\* fails the transfer with an error other than OK, completes nothing and
\* leaves ultoken unset
C9_BadBodyFails ==
    (type = PUT /\ ev.op = "doio" /\ ev.body \notin {"none", ""}
        /\ ~TokenOK(ev.body)) =>
            /\ ev.failed \notin {"none", "API_OK"}
            /\ ~ev.complete
            /\ ~ultoken

PastCompletionCheck ==
    ~ (~fa \/ (size # 0 /\ progresscompleted = size) \/ (type = PUT /\ ultoken))

\* C11: a tick that starts past the completion check with errorcount >= 5
\* fails the transfer with lasterror, which is an error other than OK, and
\* services, prepares and posts no connection
C11_TooManyErrors ==
    [][(ev'.op = "doio" /\ PastCompletionCheck /\ errorcount >= 5) =>
          /\ ev'.failed = lasterror
          /\ lasterror \notin {"API_OK", "none"}
          /\ slot' = "failed"
          /\ ev'.serviced = {} /\ ev'.posted = {}
          /\ reqs' = reqs]_vars

\* C11 happens: five errors in a row were counted and the next tick gave up
C11_Witness ==
    /\ ev.op = "doio" /\ errorcount >= 5
    /\ ev.failed = lasterror /\ lasterror # "API_OK"
    /\ ev.serviced = {}

\* the errors a tick counted after its last success
TrailingErrors(m) ==
    LET last == CHOOSE n \in 0..Len(m) :
                    /\ n = 0 \/ m[n] = "S"
                    /\ \A k \in (n + 1)..Len(m) : m[k] # "S"
    IN Len(m) - last

\* C12: after a tick in which a chunk write succeeded or the upload token
\* was accepted, errorcount counts only the errors the tick met after that
\* success: it was 0 right after it
C12_ResetOnSuccess ==
    (ev.op = "doio" /\ \E n \in 1..Len(ev.marks) : ev.marks[n] = "S") =>
        errorcount = TrailingErrors(ev.marks)

\* C12 happens: a tick counted an error on one connection and then wrote
\* the chunk of another
C12_Witness ==
    /\ ev.op = "doio" /\ ev.marks = <<"E", "S">>
    /\ errorcount = 0 /\ lasterror = "API_EREAD"

\* C13: a tick that answers a failed request with a retry (REQ_FAILURE queued
\* again as REQ_PREPARED, and posted again when nothing holds it back) counts
\* the failure in errorcount
C13_RetryCounted ==
    [][\A i \in (DOMAIN reqs) \cap (DOMAIN reqs') :
          (/\ ev'.op = "doio" /\ i \in ev'.serviced
           /\ reqs[i].status = "REQ_FAILURE"
           /\ reqs'[i].status \in {"REQ_PREPARED", "REQ_INFLIGHT"})
              => errorcount' > errorcount]_vars

\* C14: where a tick reaches its timeout test with now - lastdata >=
\* XFERTIMEOUT and the failure flag not set, every request in flight is set
\* to REQ_PREPARED, its alternative port toggled when automatic port
\* switching applies, and the transfer is not failed; with no request in
\* flight the transfer fails with EAGAIN; with the flag set, or the timeout
\* not due, the test changes nothing
C14_Timeout ==
    LET t == ev.atTimeout
        due == t.age * TimeUnit >= 600
        inflight == {i \in DOMAIN t.reqs : t.reqs[i].status = "REQ_INFLIGHT"}
        changeport == client.autoport /\ client.urlhttp
    IN (ev.op = "doio" /\ t.reached) =>
          IF due /\ ~t.failure
          THEN IF inflight # {}
               THEN /\ ev.failed = "none" /\ slot = "active"
                    /\ failure
                    /\ \A i \in DOMAIN t.reqs :
                          reqs[i] = IF i \in inflight
                                    THEN [t.reqs[i] EXCEPT
                                            !.status = "REQ_PREPARED",
                                            !.altport = IF changeport
                                                        THEN ~@ ELSE @]
                                    ELSE t.reqs[i]
               ELSE ev.failed = "API_EAGAIN" /\ slot = "failed"
          ELSE /\ reqs = t.reqs /\ failure = t.failure
               /\ ev.failed = "none"

\* C14 happens: the timeout strikes with two requests in flight on http URLs
\* and automatic port switching
C14_Witness ==
    /\ ev.op = "doio" /\ ev.atTimeout.reached
    /\ ev.atTimeout.age * TimeUnit >= 600 /\ ~ev.atTimeout.failure
    /\ Cardinality({i \in DOMAIN ev.atTimeout.reqs :
                        ev.atTimeout.reqs[i].status = "REQ_INFLIGHT"}) = 2
    /\ client.autoport /\ client.urlhttp
    /\ \A i \in DOMAIN reqs : reqs[i].status = "REQ_PREPARED" /\ reqs[i].altport

\* C15: a tick that services a request in REQ_FAILURE with HTTP status 509,
\* and no HTML reply on an http URL, fails the transfer with EOVERQUOTA and
\* a backoff of timeleft seconds when the server supplied timeleft > 0, and
\* of the client's default overquota backoff otherwise
C15_Overquota ==
    [][\A i \in DOMAIN reqs :
          (/\ ev'.op = "doio" /\ i \in ev'.serviced
           /\ reqs[i].status = "REQ_FAILURE" /\ reqs[i].httpstatus = 509
           /\ ~ (reqs[i].html /\ client.urlhttp))
              => /\ ev'.failed = "API_EOVERQUOTA"
                 /\ slot' = "failed"
                 /\ ev'.failedBackoff =
                        IF reqs[i].timeleft > 0 THEN 10 * reqs[i].timeleft
                        ELSE 10 * DEFAULT_BW_OVERQUOTA_BACKOFF_SECS]_vars

\* C15 happens: a 509 reply with a timeleft of 0 gets the default backoff
C15_Witness ==
    /\ ev.op = "doio" /\ ev.failed = "API_EOVERQUOTA"
    /\ \E i \in DOMAIN reqs :
          /\ reqs[i].status = "REQ_FAILURE" /\ reqs[i].httpstatus = 509
          /\ reqs[i].timeleft = 0
    /\ ev.failedBackoff = 10 * DEFAULT_BW_OVERQUOTA_BACKOFF_SECS

\* C16: in a RAID download whose error recovery has switched parts once, a
\* tick that services the failed request of another part fails the transfer
\* with EAGAIN, whatever the kind of the failure
C16_SecondFailureFatal ==
    [][\A i \in DOMAIN reqs :
          (/\ ev'.op = "doio" /\ raid /\ type = GET
           /\ raidbuf.switched /\ i # raidUnused
           /\ i \in ev'.serviced /\ reqs[i].status = "REQ_FAILURE")
              => (ev'.failed = "API_EAGAIN" /\ slot' = "failed")]_vars

\* ordered download applies: the client asks for it and the GET is not RAID
Ordered == client.orderdownloadedchunks /\ type = GET /\ ~raid

\* the writes of a step go up the file: each one starts above the one before
\* it, and at or above its offset nothing was written before the step
WritesAscend ==
    /\ \A n \in 1..(Len(ev'.wrote) - 1) : ev'.wrote[n] < ev'.wrote[n + 1]
    /\ \A n \in 1..Len(ev'.wrote) : \A d \in DOMAIN written :
          d >= ev'.wrote[n] => written[d] = 0

Received(i) ==
    /\ i \in DOMAIN reqs
    /\ reqs[i].status = "REQ_SUCCESS" /\ ~reqs[i].buffer_released

C18_DestructorDrains ==
    [][(ev'.op = "dtor" /\ type = GET /\ ~finished /\ progresscompleted # size) =>
        /\ \A i \in DOMAIN outbuf :
              outbuf[i].present =>
                /\ i \in ev'.released \cup ev'.discarded
                /\ (i \in ev'.released /\ ~raid)
                      => written'[outbuf[i].pos] >= outbuf[i].len
                /\ (i \notin ev'.released /\ ~raid)
                      => written'[outbuf[i].pos] = written[outbuf[i].pos]
        /\ ev'.flushed \subseteq ev'.released \cup ev'.discarded
        /\ ~ev'.anyData /\ ev'.passes <= 2
        /\ ev'.undrained = {}
        /\ ev'.cached <=> ev'.released # {}]_vars

\* C18 happens: the flush wrote one piece, discarded another whose write
\* failed, and ended on its second pass
C18_Witness ==
    /\ ev.op = "dtor" /\ type = GET /\ ~finished /\ progresscompleted # size
    /\ ev.released # {} /\ ev.discarded # {} /\ ev.flushed # {}
    /\ ev.cached /\ ev.passes = 2 /\ ev.undrained = {}

\* C19: the destructor's wait ends once the worker has finished: whenever
\* the destructor is blocked on a piece's condition variable, the piece is
\* not finalized yet, so that the worker's notification is still to come
C19_NoLostWakeup ==
    (slot = "deleting" /\ dtor.at = "blocked") => ~outbuf[dtor.i].finalized

\* C20: LocalNode::unserialize returns no object for an input shorter than
\* the header, for one cut short inside a field, and for one with bytes
\* after its last field
C20_RejectsBadInput ==
    (rd.result \notin {"idle", "none"}
        /\ \/ Len(rd.d) < HeaderLen
           \/ (Len(rd.d) < rd.whole /\ Len(rd.d) \notin rd.ends)
           \/ rd.extra > 0)
      => rd.result # "object"

\* the serialized fields of LocalNode n: its type, the size serialize writes
\* for a file, its ids, names, synced fingerprint and flags
SerializedFields(n) ==
    [type |-> n.type,
     size |-> IF n.type # 0 THEN 0
              ELSE IF n.synced.isvalid THEN n.synced.size ELSE n.scanned.size,
     fsid |-> n.fsid, dbid |-> n.dbid, handle |-> n.handle,
     localname |-> n.localname,
     crc |-> n.synced.crc, mtime |-> n.synced.mtime,
     isvalid |-> n.synced.isvalid,
     syncable |-> n.syncable,
     slocalname |-> n.slocalname]

\* C21: unserialize(serialize(n)) equals n in all serialized fields
C21_RoundTrip ==
    (rd.result = "object" /\ Len(rd.d) = rd.whole)
        => rd.out = SerializedFields(rd.node)

\* the slot objects of transfer x
SlotsOf(x) == {s \in DOMAIN cl.objs : cl.objs[s].transfer = x}

C23_EKEYClearsMacs ==
    (type = GET /\ ev.op = "doio" /\ ev.failed = "API_EKEY") =>
        (ev.failedMacs = {} /\ chunkmacs = EmptyMacs)

\* C23 happens: the check after the last chunk's write found the mac-of-macs
\* wrong, past recovery, for a download of several chunks
C23_Witness ==
    /\ type = GET /\ ev.op = "doio" /\ ev.failed = "API_EKEY"
    /\ ev.wrote # <<>> /\ ev.recovery = "false"
    /\ progresscompleted = size /\ size > SEGSIZE
    /\ chunkmacs = EmptyMacs

\* nothing but connection i gives the tick a reason to fail the transfer: no
\* other request has failed or holds a reply that is not the one expected,
\* and no file operation of the tick fails for good
OnlyTrouble(i) ==
    /\ \A j \in DOMAIN reqs \ {i} :
          /\ reqs[j].status # "REQ_FAILURE"
          /\ reqs[j].status = "REQ_SUCCESS" =>
                 (IF type = PUT THEN reqs[j].in = ""
                  ELSE reqs[j].size = reqs[j].bufpos)
    /\ \A g \in ev'.iofail : g.retry

\* the tick serviced request i, which had failed with HTTP status hs in a
\* reply that does not force the change to HTTPS
FailedWith(i, hs) ==
    /\ ev'.op = "doio" /\ i \in ev'.serviced
    /\ i \in DOMAIN reqs
    /\ reqs[i].status = "REQ_FAILURE" /\ reqs[i].httpstatus = hs
    /\ ~ (reqs[i].html /\ client.urlhttp)

\* what the tick is to do about a request it requeues with backoff b
RequeuedWithBackoff(i, b) ==
    /\ slot' = "active" /\ ev'.failed = "none"
    /\ reqs'[i].status = "REQ_PREPARED" /\ i \notin ev'.posted
    /\ retrying' /\ retrybt' = b

\* C24: a tick that finds a request failed with 429 (with 503, the transfer
\* not RAID) makes it PREPARED without posting it, does not fail the
\* transfer, and arms the retry timer with 5 (50) deciseconds, whatever the
\* other connections and the failure flag are
C24_BackoffRegardless ==
    [][\A i \in Conns :
          /\ FailedWith(i, 429) => RequeuedWithBackoff(i, 5)
          /\ (FailedWith(i, 503) /\ ~raid) => RequeuedWithBackoff(i, 50)]_vars

\* the HTTP statuses of the model that case REQ_FAILURE has no branch for
OtherStatuses == HttpStatuses \ {200, 403, 404, 429, 503, 509}

\* C25: a tick that finds a request failed with a status other than 509, 429,
\* 403, 404 and 503, and no RAID part to switch to, fails the transfer with
\* EAGAIN, toggles the alternative port where ports are changed
\* automatically, and raises the failure flag
C25_OtherStatusFails ==
    [][\A i \in Conns : \A hs \in OtherStatuses :
          (FailedWith(i, hs) /\ ~raid /\ ~failure) =>
             /\ ev'.failed = "API_EAGAIN"
             /\ failure'
             /\ (client.autoport /\ client.urlhttp) =>
                    client'.usealtport # client.usealtport]_vars

\* C26: when the recovery accepts the failure of a RAID part (403, 404, 503
\* or a network error), the failed connection is made READY and so is every
\* connection that was DONE, and the tick does not fail the transfer unless
\* something else has failed too; a transfer that is not RAID is failed with
\* EAGAIN on 403 and 404
C26_PartFailure ==
    [][/\ (ev'.op = "doio" /\ ev'.switch.part # -1) =>
            /\ raid
            /\ reqs[ev'.switch.part].status = "REQ_FAILURE"
            /\ reqs[ev'.switch.part].httpstatus \in {0, 403, 404, 503}
            /\ ev'.switch.after[ev'.switch.part].status = "REQ_READY"
            /\ \A j \in DOMAIN ev'.switch.before :
                  ev'.switch.before[j].status = "REQ_DONE" =>
                      ev'.switch.after[j].status = "REQ_READY"
            /\ OnlyTrouble(ev'.switch.part) => ev'.failed = "none"
       /\ \A i \in Conns : \A hs \in {403, 404} :
            (FailedWith(i, hs) /\ ~raid) =>
                (ev'.failed = "API_EAGAIN" /\ slot' # "active")]_vars

\* C26 happens: a part failed while another connection had finished its part
\* and was DONE; the recovery made both READY and the transfer goes on
C26_Witness ==
    /\ ev.op = "doio" /\ ev.switch.part # -1 /\ ev.failed = "none"
    /\ slot = "active"
    /\ \E j \in DOMAIN ev.switch.before :
          /\ j # ev.switch.part
          /\ ev.switch.before[j].status = "REQ_DONE"
          /\ ev.switch.after[j].status = "REQ_READY"

\* C27: a tick leaves a request that is in DECRYPTING or ENCRYPTING as it is
\* (status, range, data, output piece, file operation), and does not post
\* it; short of the slot's destruction, the only steps that take a request
\* out of these statuses are the worker's, to DECRYPTED and to PREPARED
C27_WorkerOwns ==
    [][\A i \in DOMAIN reqs :
          reqs[i].status \in WorkerOwned =>
             /\ ev'.op = "doio" =>
                   /\ reqs'[i] = reqs[i]
                   /\ outbuf'[i] = outbuf[i]
                   /\ asyncIO'[i] = asyncIO[i]
                   /\ i \notin ev'.posted \cup ev'.released \cup ev'.discarded
             /\ (ev'.op # "dtor" /\ slot' # "gone"
                    /\ reqs'[i].status # reqs[i].status) =>
                   /\ ev'.op = "env"
                   /\ reqs[i].status = "REQ_DECRYPTING" =>
                          reqs'[i].status = "REQ_DECRYPTED"
                   /\ reqs[i].status = "REQ_ENCRYPTING" =>
                          reqs'[i].status = "REQ_PREPARED"]_vars

\* C27 happens: a tick passed over a request being decrypted, which still
\* is, while it posted or wrote on another connection
C27_Witness ==
    /\ ev.op = "doio" /\ ev.failed = "none"
    /\ \E i \in ev.owned :
          /\ reqs[i].status = "REQ_DECRYPTING"
          /\ (ev.posted \cup ev.released) \ {i} # {}

\* the tick found that no data had moved for XFERTIMEOUT
TimedOut ==
    ev.atTimeout.reached /\ ev.atTimeout.age * TimeUnit >= XFERTIMEOUT

\* the file operation f of the tick failed for good: the piece is discarded
\* and the transfer failed with the error of its direction
FailedForGood(f) ==
    /\ ev'.failed = (IF type = PUT THEN "API_EREAD" ELSE "API_EWRITE")
    /\ ~outbuf'[f.conn].present
    /\ type = GET => f.conn \in ev'.discarded

\* the file operation f of the tick failed transiently: the tick has kept
\* what is to be written or read again
KeptForRetry(f) ==
    /\ type = GET =>
          /\ outbuf'[f.conn] = outbuf[f.conn]
          /\ outbuf[f.conn].present
          /\ outbuf[f.conn].pos = f.pos /\ outbuf[f.conn].len = f.len
          /\ reqs'[f.conn].status =
                 (IF f.async THEN "REQ_SUCCESS" ELSE "REQ_DECRYPTED")
    /\ (type = PUT /\ f.async /\ ~failure') =>
          /\ reqs'[f.conn].status = "REQ_ASYNCIO"
          /\ asyncIO'[f.conn] = [present |-> TRUE, finished |-> FALSE,
                                 failed |-> FALSE, retry |-> FALSE,
                                 pos |-> f.pos, len |-> f.len]
    /\ (type = PUT /\ ~f.async) =>
          \/ pos' = f.pos
          \/ \E j \in DOMAIN reqs' :
                /\ reqs'[j].status = "REQ_PREPARED"
                /\ reqs'[j].pos = f.pos /\ reqs'[j].size = f.len

\* the tick that follows the transient failure f does the operation again
Retried(f) ==
    /\ (type = GET /\ ~f.async) =>
          \/ \E k \in DOMAIN ev'.wrote : ev'.wrote[k] = f.pos
          \/ \E g \in ev'.iofail :
                g.conn = f.conn /\ g.pos = f.pos /\ g.len = f.len
    /\ (type = GET /\ f.async) =>
          /\ outbuf'[f.conn] = outbuf[f.conn]
          /\ reqs'[f.conn].status \in {"REQ_SUCCESS", "REQ_DECRYPTING",
                                        "REQ_DECRYPTED"}
    /\ (type = PUT /\ ~f.async /\ pos = f.pos /\ ~failure') =>
          \/ \E j \in DOMAIN reqs' :
                /\ reqs'[j].status \in {"REQ_PREPARED", "REQ_INFLIGHT"}
                /\ reqs'[j].pos = f.pos /\ reqs'[j].size = f.len
          \/ \E g \in ev'.iofail : g.pos = f.pos /\ g.len = f.len

\* C28: a file operation that fails without the retry flag makes the tick
\* discard the piece and fail the transfer with EWRITE (download) or EREAD
\* (upload); one that fails with the retry flag does not fail the transfer
\* (what else the tick meets may), has the retry timer armed, with 2
\* deciseconds unless a failed request asks for more, keeps the piece or the
\* range, and the same piece is written, the same range read, again; the
\* no-data timeout of the tick is a failure of its own
C28_IoFailure ==
    [][/\ ev'.op = "doio" =>
            \A f \in ev'.iofail :
               IF ~f.retry THEN FailedForGood(f)
               ELSE /\ (\A g \in ev'.iofail : g.retry) =>
                          ev'.failed \notin {"API_EREAD", "API_EWRITE"}
                    /\ (~TimedOut' /\ OnlyTrouble(f.conn)) =>
                          ev'.failed = "none"
                    /\ (~failure' /\ ev'.failed = "none") =>
                          /\ retrying' /\ retrybt' >= 2
                          /\ OnlyTrouble(f.conn) => retrybt' = 2
                    /\ KeptForRetry(f)
       /\ (ev.op = "doio" /\ ev.failed = "none" /\ ~failure
              /\ ev'.op = "doio") =>
            \A f \in ev.iofail :
               (f.retry /\ f.conn \in ev'.serviced) => Retried(f)]_vars

\* C28 happens: the write of a decrypted piece failed with the retry flag
\* set; the piece is still there and the retry timer armed
C28_Witness ==
    /\ ev.op = "doio" /\ ev.failed = "none" /\ type = GET
    /\ retrying /\ retrybt = 2
    /\ \E f \in ev.iofail :
          /\ f.retry
          /\ outbuf[f.conn].present /\ outbuf[f.conn].pos = f.pos

\* the tick serviced request i, whose reply is of type text/html on an http:
\* URL: a failed chunk with an HTTP status, an upload's error body, or a
\* download that is not of the requested size (and is not postponed)
HtmlSeen(i) ==
    /\ ev'.op = "doio" /\ i \in ev'.serviced /\ i \in DOMAIN reqs
    /\ reqs[i].html /\ client.urlhttp
    /\ \/ reqs[i].status = "REQ_FAILURE" /\ reqs[i].httpstatus # 0
       \/ /\ type = PUT /\ reqs[i].status = "REQ_SUCCESS"
          /\ reqs[i].in # ""
          /\ ~ (TokenSized(reqs[i].in) /\ TokenOK(reqs[i].in))
       \/ /\ type = GET /\ reqs[i].status = "REQ_SUCCESS"
          /\ reqs[i].size # reqs[i].bufpos /\ ~reqs[i].buffer_released
          /\ ~ (client.orderdownloadedchunks /\ ~raid
                 /\ progresscompleted # reqs[i].pos)

\* the tick switched the client to HTTPS and failed the transfer with EAGAIN
SwitchedToHttps ==
    client'.usehttps /\ ev'.failed = "API_EAGAIN" /\ slot' = "failed"

\* C29 as stated: every text/html reply seen on an http: URL makes the tick
\* switch to HTTPS and fail the transfer with EAGAIN
C29_HtmlAlwaysHttps ==
    [][\A i \in Conns : HtmlSeen(i) => SwitchedToHttps]_vars

\* C29: a text/html reply seen on an http: URL makes the tick switch to HTTPS
\* and fail the transfer with EAGAIN, whatever the HTTP status, unless it is
\* an upload's error body that reads as EKEY, which counts as an error of the
\* request, to be sent again: of itself it neither fails the transfer nor
\* changes the protocol
C29_HtmlSwitchesToHttps ==
    [][\A i \in Conns :
          HtmlSeen(i) =>
             IF type = PUT /\ reqs[i].status = "REQ_SUCCESS"
                /\ BodyError(reqs[i].in) = "API_EKEY"
             THEN /\ OnlyTrouble(i) =>
                        (ev'.failed = "none" /\ ~client'.usehttps)
                  /\ reqs'[i].status = "REQ_PREPARED" \/ i \in ev'.posted
                  /\ \E k \in DOMAIN ev'.marks : ev'.marks[k] = "E"
             ELSE SwitchedToHttps]_vars

\* C29 happens: the transfer was failed with EAGAIN and the client switched
\* to HTTPS on an HTML reply with a status that has a handling of its own
C29_Witness ==
    /\ ev.op = "doio" /\ ev.failed = "API_EAGAIN" /\ client.usehttps
    /\ client.urlhttp
    /\ \E i \in DOMAIN reqs :
          /\ reqs[i].status = "REQ_FAILURE" /\ reqs[i].html
          /\ reqs[i].httpstatus \in {404, 429, 503, 509}

\* the indices (from 0) of the chunk MACs of m that mm does not hold
OmittedBy(m, mm) ==
    Bind(MacSeq(m), LAMBDA macs :
        {n \in 0..(Len(macs) - 1) :
            \A k \in DOMAIN mm : mm[k] # macs[n + 1]})

\* O is one gap of 1..SingleGapMaxLen chunks that starts among the last
\* min(SingleGapWindow, N) chunks, or two separated gaps of 1..TwoGapMaxLen
\* chunks each among the last min(TwoGapWindow, N)
LateGaps(O, N) ==
    /\ O # {}
    /\ LET lo == CHOOSE x \in O : \A y \in O : x <= y
           hi == CHOOSE x \in O : \A y \in O : x >= y
       IN \/ /\ O = lo..hi
             /\ hi - lo + 1 <= SingleGapMaxLen
             /\ lo >= N - Min(SingleGapWindow, N)
          \/ /\ lo >= N - Min(TwoGapWindow, N)
             /\ \E a \in lo..hi : \E b \in (a + 2)..hi :
                   /\ O = (lo..a) \cup (b..hi)
                   /\ a - lo + 1 <= TwoGapMaxLen
                   /\ hi - b + 1 <= TwoGapMaxLen

\* C30: checkMetaMacWithMissingLateEntries returns true exactly when the
\* metamac it is given is the mac-of-macs of the chunk MACs with one late gap
\* or two separated late gaps left out; on true the metamac is put right
C30_LateGapsExactly ==
    (ev.recovery # "none") =>
        /\ (ev.recovery = "true") <=>
              /\ LateGaps(OmittedBy(chunkmacs, ev.given),
                          Cardinality(DOMAIN chunkmacs))
              /\ ev.given = SelectSeq(MacSeq(chunkmacs),
                                      LAMBDA e : \E k \in DOMAIN ev.given :
                                                    ev.given[k] = e)
        /\ (ev.recovery = "true") => metamac = macsmac_of(chunkmacs)
        /\ (ev.recovery = "false") => metamac = ev.given

\* C30 happens: of more chunk MACs than the single-gap window the one at
\* the far edge of the window was missing, and the metamac was recovered
C30_Witness ==
    /\ ev.op = "check" /\ ev.recovery = "true"
    /\ Cardinality(DOMAIN chunkmacs) > SingleGapWindow
    /\ OmittedBy(chunkmacs, ev.given)
          = {Cardinality(DOMAIN chunkmacs) - SingleGapWindow}

\* C31: a check that returns true has set metamac and currentmetamac to the
\* mac-of-macs of all the chunk MACs; one that returns false has changed
\* neither; the chunk MACs are the same after the check as before it
C31_CheckFrame ==
    [][ev'.op = "check" =>
          /\ chunkmacs' = chunkmacs
          /\ ev'.recovery \in {"true", "false"}
          /\ ev'.recovery = "true" =>
                 /\ metamac' = macsmac_of(chunkmacs)
                 /\ currentmetamac' = macsmac_of(chunkmacs)
          /\ ev'.recovery = "false" =>
                 /\ metamac' = metamac
                 /\ currentmetamac' = currentmetamac]_vars

\* C31 happens: the check returned true on a metamac with two separate gaps
\* and both metamacs are now the mac-of-macs of all the chunk MACs
C31_Witness ==
    /\ ev.op = "check" /\ ev.recovery = "true"
    /\ ev.given # macsmac_of(chunkmacs)
    /\ metamac = macsmac_of(chunkmacs) /\ currentmetamac = metamac
    /\ \E a \in OmittedBy(chunkmacs, ev.given) :
          \E b \in OmittedBy(chunkmacs, ev.given) :
             /\ a + 1 < b
             /\ a + 1 \notin OmittedBy(chunkmacs, ev.given)

\* the bytes the requests in flight before the tick have transferred
InflightBytes ==
    RaidGotSum([i \in DOMAIN reqs |->
                   IF reqs[i].status = "REQ_INFLIGHT" THEN reqs[i].bufpos ELSE 0],
               DOMAIN reqs)

\* C32: the progress a full tick computes, when the tick counts neither a
\* postponed chunk nor a piece being written, is the bytes transferred by
\* the requests in flight, plus progresscompleted, plus the RAID data
\* waiting to be recombined
C32_ProgressSum ==
    [][(ev'.op = "doio" /\ ev'.p # -1 /\ ev'.pExtra = 0) =>
          ev'.p = InflightBytes + progresscompleted'
                     + RaidProgress([raidbuf |-> raidbuf'])]_vars

C34_TokenSumIsSize ==
    (type = PUT /\ ev.op = "doio" /\ ev.token) =>
        (ev.tokenSum = size /\ progresscompleted = size)

\* C35: toggleport on an http: URL with a path and no port puts ":8080"
\* behind the host, on one with a port removes the port, and leaves host and
\* path as they were; a URL that does not begin with http: stays as it is;
\* two calls on an http: URL without a port give the URL back
C35_TogglePort ==
    \A k \in 1..Len(tp.before) :
       Bind(IF k = Len(tp.before) THEN tp.posturl ELSE tp.before[k + 1],
            LAMBDA after :
          /\ ~IsHttp(tp.parts.scheme) => after = tp.before[k]
          /\ (k = 1 /\ IsHttp(tp.parts.scheme) /\ tp.parts.path # <<>>) =>
                after = UrlOf([tp.parts EXCEPT
                                  !.port = IF @ = <<>>
                                           THEN <<":", "8", "0", "8", "0">>
                                           ELSE <<>>])
          /\ (k = 2 /\ IsHttp(tp.parts.scheme) /\ tp.parts.path # <<>>
                 /\ tp.parts.port = <<>>) =>
                after = tp.before[1])

\* C36: after the constructor, a reset or the destructor the transfer's
\* timer bt is enabled exactly when no file access is held
C36_TimerFollowsFileAccess ==
    tfa.calls # <<>> => (tfa.bt <=> ~tfa.fa)

\* C37: a tick of a slot whose failure flag is set takes no decision in the
\* READY block (no READY connection becomes PREPARED), posts no request,
\* does not arm the retry timer, and leaves the flag set; no step clears
\* the flag while the slot exists
C37_FailureStops ==
    [][(failure /\ slot' # "gone") =>
          /\ failure'
          /\ ev'.op = "doio" =>
                /\ ev'.ready = {} /\ ev'.posted = {}
                /\ \A i \in DOMAIN reqs \cap DOMAIN reqs' :
                      reqs[i].status = "REQ_READY" =>
                         reqs'[i].status = "REQ_READY"
                /\ ~(retrying' /\ retrybt' > 0)]_vars

\* C37 as it holds: a tick of a slot whose failure flag is set takes no
\* decision in the READY block, posts no request and leaves the flag set,
\* and no step clears the flag while the slot exists; the tick does not arm
\* the retry timer with a backoff of its connections, it arms it (with 2)
\* only when it finds the transfer whole and hands it to transfer->complete
\* without servicing a connection
C37_FailureStopsRequests ==
    [][(failure /\ slot' # "gone") =>
          /\ failure'
          /\ ev'.op = "doio" =>
                /\ ev'.ready = {} /\ ev'.posted = {}
                /\ \A i \in DOMAIN reqs \cap DOMAIN reqs' :
                      reqs[i].status = "REQ_READY" =>
                         reqs'[i].status = "REQ_READY"
                /\ (retrying' /\ retrybt' > 0) =>
                      (ev'.complete /\ retrybt' = 2 /\ ev'.serviced = {})]_vars

\* C37 happens: a tick of a failed slot has serviced its connections; the
\* one serviced first, whose request had succeeded, is left READY without
\* a decision of the READY block, a failed request stays PREPARED and is
\* not posted
C37_Witness ==
    /\ ev.op = "doio" /\ failure /\ slot = "active" /\ connections > 1
    /\ (connections - 1) \in ev.serviced
    /\ reqs[connections - 1].status = "REQ_READY"
    /\ ev.ready = {} /\ ev.iofail = {} /\ ev.posted = {} /\ ~retrying
    /\ \E j \in DOMAIN reqs : reqs[j].status = "REQ_PREPARED"

\* C38: a RAID part request that failed after a 200 reply with a RAIDSECTOR
\* or more received is made SUCCESS with the bytes received cut to whole
\* RAIDSECTORs, and the next position to fetch of its part is the request's
\* start plus the bytes kept
C38_PartialPartPosition ==
    \A k \in ev.kept :
       /\ k.kept % RAIDSECTOR = 0 /\ k.kept <= k.got /\ k.got - k.kept < RAIDSECTOR
       /\ k.next = k.start + k.kept

\* a call of updatecontiguousprogress has moved progresscontiguous to the
\* first boundary, from where it was, that has no finished entry
ContigMoved ==
    /\ progresscontiguous' >= progresscontiguous
    /\ progresscontiguous' <= size
    /\ progresscontiguous' \in Boundaries(size)
    /\ ~(progresscontiguous' \in DOMAIN chunkmacs
            /\ chunkmacs[progresscontiguous'].finished)
    /\ \A b \in Boundaries(size) :
          (progresscontiguous <= b /\ b < progresscontiguous') =>
             (b \in DOMAIN chunkmacs /\ chunkmacs[b].finished)

\* C39: updatecontiguousprogress ends, whatever the chunkmacs map and the
\* file size, and leaves progresscontiguous, never lower than before and
\* never beyond size, at the first chunk boundary at or after its old value
\* that has no finished entry
C39_ContiguousProgress ==
    [][ev'.op = "contig" => (~ev'.loops /\ ContigMoved)]_vars

\* C40: after any setparent calls the counter of every counted ancestor has
\* changed as the totals of the nodes below it have (the counters were right
\* to begin with, so they are right), a call with p == parent, which changes
\* nothing, included
C40_CountersFollowTree ==
    nodes.moves > 0 => nodes.counters = TreeCounters(nodes.parent)

====
